---- MODULE Spec2Model ----
(***************************************************************************)
(* The batch recipe-processing orchestration of mealie_translate:          *)
(* RecipeProcessor (recipe_processor.py) driving MealieClient             *)
(* (mealie_client.py) and the translator against a recipe store.           *)
(*                                                                         *)
(* Python values are modelled as follows.  A dict is a TLA+ function with  *)
(* string keys; a str is a sequence of one-character strings; a slug is a  *)
(* positive integer and 0 stands for None / the empty slug (both falsy).  *)
(***************************************************************************)
EXTENDS Integers, Sequences, FiniteSets, TLC

(***************************************************************************)
(* Bounds of the model.                                                    *)
(***************************************************************************)
\* recipes in the store's listing
MaxRecipes == 3
\* Settings.batch_size ranges over 1..MaxBatchSize
MaxBatchSize == 2
\* Settings.dry_run_limit ranges over 1..MaxLimit when dry_run is set
MaxLimit == 2
\* runs of process_all_recipes in succession
MaxRuns == 2
\* network/provider errors injected over the whole behaviour
MaxFaults == 2
\* writes to the store by somebody else (another user, another run)
MaxEnv == 1
\* OpenAITranslator.max_retries ranges over 0..MaxRetries
MaxRetries == 4
\* OpenAITranslator.retry_delay ranges over 0..MaxDelay
MaxDelay == 3
\* ingredient texts handed to _translate_ingredient_batch
MaxTexts == 3
\* lines of a provider response to an ingredient batch
MaxLines == 3
\* recipes the store holds when its listing is paged through
MaxStored == 110
\* recipes in a store that runs share
MaxShared == 2
\* network and provider errors injected into runs side by side
MaxRunFaults == 1
\* calls of mark_recipe_as_processed in succession
MaxMarkCalls == 2

(***************************************************************************)
(* Program constants.                                                      *)
(***************************************************************************)
\* config.py: dry_run_limit: int = 5
DefaultDryRunLimit == 5
\* mealie_client.py, get_all_recipes: per_page = 50
per_page == 50

(***************************************************************************)
(* Python dict and str helpers.                                            *)
(***************************************************************************)
None == 0

EmptyDict == [k \in {} |-> <<>>]

\* the value None where a recipe dict is expected
NoRecipe == [none |-> TRUE]

\* d.get(k, default)
Get(d, k, default) == IF k \in DOMAIN d THEN d[k] ELSE default

\* d[k] = v
Put(d, k, v) == [x \in DOMAIN d \cup {k} |-> IF x = k THEN v ELSE d[x]]

\* truthiness of a slug value
Truthy(v) == v # None

UpperCase ==
  <<"A", "B", "C", "D", "E", "F", "G", "H", "I", "J", "K", "L", "M",
    "N", "O", "P", "Q", "R", "S", "T", "U", "V", "W", "X", "Y", "Z">>

LowerCase ==
  <<"a", "b", "c", "d", "e", "f", "g", "h", "i", "j", "k", "l", "m",
    "n", "o", "p", "q", "r", "s", "t", "u", "v", "w", "x", "y", "z">>

LowerChar(c) ==
  IF \E n \in DOMAIN UpperCase : UpperCase[n] = c
  THEN LowerCase[CHOOSE n \in DOMAIN UpperCase : UpperCase[n] = c]
  ELSE c

\* str.lower()
StrLower(s) == [n \in DOMAIN s |-> LowerChar(s[n])]

StrTrue == <<"t", "r", "u", "e">>
StrOne == <<"1">>

(***************************************************************************)
(* MealieClient.is_recipe_processed                                        *)
(***************************************************************************)
ProcessedValues == {StrTrue, StrOne}

\* faulty variant: the value is compared without .lower()
is_recipe_processed_NoLower(recipe) ==
  LET extras == Get(recipe, "extras", EmptyDict)
      translated_value == Get(extras, "translated", <<>>)
  IN  translated_value \in ProcessedValues

is_recipe_processed(recipe) ==
  LET extras == Get(recipe, "extras", EmptyDict)
      translated_value == Get(extras, "translated", <<>>)
  IN  StrLower(translated_value) \in ProcessedValues

(***************************************************************************)
(* The recipe store and the translator, as the client sees them.  Every    *)
(* call over the network takes a parameter net: "ok", or "error" for a     *)
(* requests.RequestException (translator: an exception after the retries). *)
(***************************************************************************)
Net == {"ok", "error"}

Slugs == 1..MaxRecipes

\* MealieClient.get_recipe_details: the record, None for a 404, or raises
get_recipe_details(st, recipe_slug, net) ==
  IF net = "error"
  THEN [raised |-> TRUE, value |-> NoRecipe]
  ELSE [raised |-> FALSE, value |-> st[recipe_slug]]

\* MealieClient.update_recipe: PUT of the complete recipe object; True, or
\* raises (raise_for_status on a 404 of a vanished recipe included)
update_recipe(st, recipe_slug, recipe_data, net) ==
  IF net = "error" \/ st[recipe_slug] = NoRecipe
  THEN [raised |-> TRUE, value |-> FALSE, store |-> st]
  ELSE [raised |-> FALSE, value |-> TRUE,
        store |-> [st EXCEPT ![recipe_slug] = recipe_data]]

\* faulty variant: the flag is written under a key the predicate does not read
SetProcessedFlagOtherKey(recipe) ==
  Put(recipe, "extras",
      Put(Get(recipe, "extras", EmptyDict), "processed", StrTrue))

\* the statements of mark_recipe_as_processed that set the flag in extras
SetProcessedFlag(recipe) ==
  Put(recipe, "extras",
      Put(Get(recipe, "extras", EmptyDict), "translated", StrTrue))

\* what mark_recipe_as_processed returns when its try block raises
MarkOnException(st, calls, failed) ==
  [raised |-> FALSE, value |-> FALSE, store |-> st, calls |-> calls,
   failed |-> failed]

\* MealieClient.mark_recipe_as_processed: read-modify-write, never raises
mark_recipe_as_processed(st, recipe_slug, netFetch, netUpdate) ==
  LET g == get_recipe_details(st, recipe_slug, netFetch)
  IN  IF g.raised THEN MarkOnException(st, {"mfetch"}, {"mfetch"})
      ELSE IF g.value = NoRecipe
      THEN [raised |-> FALSE, value |-> FALSE, store |-> st,
            calls |-> {"mfetch"}, failed |-> {"mfetch"}]
      ELSE IF is_recipe_processed(g.value)
      THEN [raised |-> FALSE, value |-> TRUE, store |-> st,
            calls |-> {"mfetch"}, failed |-> {}]
      ELSE LET u == update_recipe(st, recipe_slug,
                                  SetProcessedFlag(g.value), netUpdate)
           IN  IF u.raised
               THEN MarkOnException(st, {"mfetch", "mupdate"}, {"mupdate"})
               ELSE [raised |-> FALSE, value |-> u.value, store |-> u.store,
                     calls |-> {"mfetch", "mupdate"}, failed |-> {}]

\* RecipeTranslator.translate_recipe: a copy with the text fields translated,
\* every other key (extras among them) passed through
translate_recipe(recipe) ==
  IF "name" \in DOMAIN recipe THEN [recipe EXCEPT !.name = "xlat"] ELSE recipe

(***************************************************************************)
(* RecipeProcessor: the pieces of process_all_recipes,                     *)
(* _process_recipe_batch and process_single_recipe.                        *)
(***************************************************************************)
\* recipe.get("slug") or recipe.get("id")
recipe_slug_of(recipe) ==
  LET s == Get(recipe, "slug", None)
  IN  IF Truthy(s) THEN s ELSE Get(recipe, "id", None)

\* the return value for an empty listing
EmptyListingStats ==
  [total_recipes |-> 0, processed |-> 0, skipped |-> 0, failed |-> 0]

\* faulty variant: the filter's drops are not reported as skipped
NoUnprocessedStatsZeroSkipped(all) ==
  [total_recipes |-> Len(all), processed |-> 0, skipped |-> 0, failed |-> 0]

\* faulty variant: total_recipes counts the eligible recipes, none
NoUnprocessedStatsNoTotal(all) ==
  [total_recipes |-> 0, processed |-> 0, skipped |-> Len(all), failed |-> 0]

\* the return value when the filter keeps nothing
NoUnprocessedStats(all) ==
  [total_recipes |-> Len(all), processed |-> 0, skipped |-> Len(all),
   failed |-> 0]

\* stats before the first batch
InitialStats(unprocessed) ==
  [total_recipes |-> Len(unprocessed), processed |-> 0, skipped |-> 0,
   failed |-> 0]

\* stats of _process_recipe_batch before its first item
ZeroBatchStats == [processed |-> 0, skipped |-> 0, failed |-> 0]

\* faulty variant: a candidate whose details are None is kept
KeepsCandidateNone(full_recipe) ==
  full_recipe = NoRecipe \/ ~is_recipe_processed(full_recipe)

\* the filter's decision for one candidate whose details were fetched
KeepsCandidate(full_recipe) ==
  full_recipe # NoRecipe /\ ~is_recipe_processed(full_recipe)

\* faulty variant: rounds down, total_batches = len(...) // batch_size
TotalBatchesFloor(n, batch_size) == n \div batch_size

\* Python's a // b for b # 0: the quotient rounded towards minus infinity
FloorDiv(a, b) == IF b > 0 THEN a \div b ELSE (0 - a) \div (0 - b)

\* total_batches = (len(unprocessed_recipes) + batch_size - 1) // batch_size
TotalBatches(n, batch_size) == FloorDiv(n + batch_size - 1, batch_size)

\* where a slice bound falls in a list of n elements: a negative bound counts
\* from the end, and a bound outside the list is moved to its nearer end
SliceIndex(i, n) ==
  IF i < 0 THEN (IF i + n < 0 THEN 0 ELSE i + n)
  ELSE IF i > n THEN n ELSE i

\* faulty variant: the batches are sliced from the end of the list
BatchSliceBackwards(unprocessed, num, batch_size) ==
  LET end_idx == Len(unprocessed) - num * batch_size
      start_idx == IF end_idx > batch_size THEN end_idx - batch_size ELSE 0
  IN  IF end_idx <= 0 THEN <<>> ELSE SubSeq(unprocessed, start_idx + 1, end_idx)

\* unprocessed_recipes[start_idx:end_idx] of batch number batch_num (0-based)
BatchSlice(unprocessed, num, batch_size) ==
  LET start_idx == num * batch_size
      end_idx == start_idx + batch_size
      lo == SliceIndex(start_idx, Len(unprocessed))
      hi == SliceIndex(end_idx, Len(unprocessed))
  IN  IF lo >= hi THEN <<>> ELSE SubSeq(unprocessed, lo + 1, hi)

\* stats[key] += 1
Bump(st, key) == [st EXCEPT ![key] = @ + 1]

\* the increments of one pass of the loop body, applied in order
RECURSIVE BumpAll(_, _)
BumpAll(st, keys) ==
  IF keys = <<>> THEN st ELSE BumpAll(Bump(st, Head(keys)), Tail(keys))

\* faulty variant: the pause follows the last batch as well
BatchPauseAlways(num, total) == <<2>>

\* if batch_num < total_batches - 1: time.sleep(2)
BatchPause(num, total) == IF num < total - 1 THEN <<2>> ELSE <<>>

\* for key in ["processed", "skipped", "failed"]: stats[key] += batch_stats[key]
AddBatchStats(st, bs) ==
  [st EXCEPT !.processed = @ + bs.processed,
             !.skipped = @ + bs.skipped,
             !.failed = @ + bs.failed]

\* result of one pass of the loop body of _process_recipe_batch: the counters
\* it incremented, in order, and whether an exception left the loop
ItemResult(bumps, st, calls, failed) ==
  [bumps |-> bumps, raised |-> FALSE, store |-> st, calls |-> calls,
   failed |-> failed, slept |-> <<>>]

\* faulty variant: the except clause re-raises
ItemOnExceptionRaise(st, calls, failed) ==
  [bumps |-> <<>>, raised |-> TRUE, store |-> st, calls |-> calls,
   failed |-> failed, slept |-> <<>>]

\* the except clause of the loop body: the item is failed, the loop goes on
ItemOnException(st, calls, failed) ==
  ItemResult(<<"failed">>, st, calls, failed)

\* if not recipe_slug: stats["skipped"] += 1; continue
ItemMissingSlug(st) == ItemResult(<<"skipped">>, st, {}, {})

\* faulty variant: the continue is missing, so is_recipe_processed(None)
\* raises and the except clause counts the item as failed a second time
ItemNotFoundNoContinue(st) ==
  ItemResult(<<"failed", "failed">>, st, {"fetch"}, {"fetch"})

\* faulty variant: a recipe that is not found is counted as skipped
ItemNotFoundSkipped(st) == ItemResult(<<"skipped">>, st, {"fetch"}, {})

\* if not full_recipe: stats["failed"] += 1; continue
ItemNotFound(st) == ItemResult(<<"failed">>, st, {"fetch"}, {"fetch"})

\* faulty variant: a recipe that carries the marker is counted as processed
ItemAlreadyProcessedCounted(st) ==
  ItemResult(<<"processed">>, st, {"fetch"}, {})

\* if is_recipe_processed(full_recipe): stats["skipped"] += 1; continue
ItemAlreadyProcessed(st) == ItemResult(<<"skipped">>, st, {"fetch"}, {})

\* faulty variant: a failed mark fails the item
AfterMarkStrict(mark_success) ==
  IF mark_success THEN <<"processed">> ELSE <<"failed">>

\* how the loop body counts an item whose update succeeded, given the mark
AfterMark(mark_success) == <<"processed">>

\* time.sleep(1), the last statement of the try block: it follows
\* stats["processed"] += 1 and nothing else
ItemPaced(r) == [r EXCEPT !.slept = <<1>>]

\* one pass of the loop body of _process_recipe_batch for one recipe; o gives
\* the outcome of each network call the pass may make
ProcessItem(st, recipe, o) ==
  LET slug == recipe_slug_of(recipe)
  IN  IF ~Truthy(slug) THEN ItemMissingSlug(st)
      ELSE
      LET g == get_recipe_details(st, slug, o.fetch)
      IN  IF g.raised THEN ItemOnException(st, {"fetch"}, {"fetch"})
          ELSE IF g.value = NoRecipe THEN ItemNotFound(st)
          ELSE IF is_recipe_processed(g.value) THEN ItemAlreadyProcessed(st)
          ELSE IF o.translate = "error"
          THEN ItemOnException(st, {"fetch", "translate"}, {"translate"})
          ELSE
          LET u == update_recipe(st, slug, translate_recipe(g.value), o.update)
              made == {"fetch", "translate", "update"}
          IN  IF u.raised THEN ItemOnException(st, made, {"update"})
              ELSE IF ~u.value
              THEN ItemResult(<<"failed">>, st, made, {"update"})
              ELSE
              LET m == mark_recipe_as_processed(u.store, slug, o.mfetch,
                                                o.mupdate)
                  all == made \cup {"mark"} \cup m.calls
              IN  IF m.raised
                  THEN ItemOnException(m.store, all, m.failed \cup {"mark"})
                  ELSE ItemPaced(ItemResult(AfterMark(m.value), m.store, all,
                                            m.failed \cup
                                              (IF m.value THEN {}
                                               ELSE {"mark"})))

\* result of process_single_recipe
SingleResult(value, st, calls, failed) ==
  [value |-> value, store |-> st, calls |-> calls, failed |-> failed]

\* faulty variant: the outcome of update_recipe is not looked at
UpdateSucceededAlways(u) == TRUE

\* process_single_recipe goes on to mark the recipe: update_recipe did not
\* raise (the except clause returns False) and `if not success` did not hold
UpdateSucceeded(u) == ~u.raised /\ u.value

\* process_single_recipe(recipe_slug)
process_single_recipe(st, slug, o) ==
  LET g == get_recipe_details(st, slug, o.fetch)
  IN  IF g.raised THEN SingleResult(FALSE, st, {"fetch"}, {"fetch"})
      ELSE IF g.value = NoRecipe
      THEN SingleResult(FALSE, st, {"fetch"}, {"fetch"})
      ELSE IF is_recipe_processed(g.value)
      THEN SingleResult(TRUE, st, {"fetch"}, {})
      ELSE IF o.translate = "error"
      THEN SingleResult(FALSE, st, {"fetch", "translate"}, {"translate"})
      ELSE
      LET u == update_recipe(st, slug, translate_recipe(g.value), o.update)
          made == {"fetch", "translate", "update"}
      IN  IF ~UpdateSucceeded(u)
          THEN SingleResult(FALSE, st, made, {"update"})
          ELSE
          LET m == mark_recipe_as_processed(u.store, slug, o.mfetch, o.mupdate)
              all == made \cup {"mark"} \cup m.calls
          IN  IF m.raised
              THEN SingleResult(FALSE, m.store, all, m.failed \cup {"mark"})
              ELSE SingleResult(TRUE, m.store, all,
                                m.failed \cup
                                  (IF m.value THEN {} ELSE {"mark"}))

(***************************************************************************)
(* State.                                                                  *)
(***************************************************************************)
VARIABLES
  settings,             \* Settings: batch_size, dry_run, dry_run_limit
  catalog,              \* the store's listing entries (summary records)
  store,                \* slug -> full recipe record, or NoRecipe (404)
  pc,                   \* where the invocation stands
  runsLeft,             \* invocations of process_all_recipes still to start
  all_recipes,          \* process_all_recipes: all_recipes
  fi,                   \* position of the filter loop in all_recipes
  unprocessed_recipes,  \* process_all_recipes: unprocessed_recipes
  stats,                \* process_all_recipes: stats
  total_batches,        \* process_all_recipes: total_batches
  batch_num,            \* process_all_recipes: batch_num
  batch,                \* _process_recipe_batch: recipes
  bi,                   \* position of the loop of _process_recipe_batch
  batch_stats,          \* _process_recipe_batch: stats
  result,               \* what process_all_recipes returned, or NoResult
  single,               \* what process_single_recipe returned, or NoResult
  direct,               \* the batch step was called on its own
  probe,                \* is_recipe_processed called on its own: the argument
  verdict,              \* ... and what it returned, or NoResult
  batches,              \* history: the batches handed to the batch step
  calls,                \* history: calls of this invocation, by kind and slug
  failures,             \* history: <<slug, call>> that failed, this invocation
  translations,         \* history: translate_recipe calls per slug, all runs
  past,                 \* history: the invocations that ended before this one
  nfaults,              \* injected network/provider errors so far
  envMoves,             \* writes by somebody else so far
  sleeps,               \* history: the time.sleep calls of this invocation
  retry,                \* OpenAITranslator._call_openai: its frame, or NoCall
  ingredient_batch,     \* _translate_ingredient_batch: its frame, or NoCall
  factory,              \* TranslatorFactory.create_translator: its frame, or NoCall
  startup,              \* RecipeProcessor.__init__: its frame, or NoCall
  listing,              \* MealieClient.get_all_recipes: its frame, or NoCall
  cli,                  \* main: its frame, or NoCall
  concurrent,           \* runs of process_all_recipes side by side, or NoCall
  marking               \* mark_recipe_as_processed: its frame, or NoCall

\* the variables of the recipe processor and of the store
processorVars ==
  <<settings, catalog, store, pc, runsLeft, all_recipes, fi, unprocessed_recipes,
    stats, total_batches, batch_num, batch, bi, batch_stats, result, single,
    batches, calls, failures, translations, past, nfaults, envMoves, sleeps,
    direct, probe, verdict>>

\* the variables of the translator, called on its own
libVars ==
  <<retry, ingredient_batch, factory, startup, listing, cli, concurrent,
    marking>>

vars ==
  <<settings, catalog, store, pc, runsLeft, all_recipes, fi, unprocessed_recipes,
    stats, total_batches, batch_num, batch, bi, batch_stats, result, single,
    batches, calls, failures, translations, past, nfaults, envMoves, sleeps,
    direct, probe, verdict, libVars>>

\* the call of is_recipe_processed on its own
probeVars == <<probe, verdict>>

runVars ==
  <<all_recipes, fi, unprocessed_recipes, stats, total_batches, batch_num,
    batch, bi, batch_stats>>

NoResult == [none |-> TRUE]

\* no call of the translator is under way
NoCall == [none |-> TRUE]

LibIdle ==
  /\ retry = NoCall
  /\ ingredient_batch = NoCall
  /\ factory = NoCall
  /\ startup = NoCall
  /\ listing = NoCall
  /\ cli = NoCall
  /\ concurrent = NoCall
  /\ marking = NoCall

CallKinds == {"ffetch", "fetch", "translate", "update", "mark"}

NoCalls == [k \in CallKinds |-> [s \in Slugs |-> 0]]

\* the network calls whose outcome an item pass draws
Outcomes ==
  [fetch : Net, translate : Net, update : Net, mfetch : Net, mupdate : Net]

Errors(o) == {c \in DOMAIN o : o[c] = "error"}

\* calls with one more call of each kind in made, for slug
Record(cs, slug, made) ==
  [k \in CallKinds |->
     IF k \in made THEN [cs[k] EXCEPT ![slug] = @ + 1] ELSE cs[k]]

(***************************************************************************)
(* Initial states: a store of up to MaxRecipes recipes.  Entry n of the    *)
(* listing is keyed by slug or by id, or carries neither key; a stored     *)
(* recipe starts with no extras, or with the marker "True".                *)
(***************************************************************************)
StrTrueCap == <<"T", "r", "u", "e">>

Fresh(n) == [slug |-> n, name |-> "orig"]

EntryKinds == {"slug", "slug-marked", "id", "keyless"}

SummaryOf(n, kind) ==
  CASE kind = "id" -> [slug |-> None, id |-> n]
    [] kind = "keyless" -> [name |-> "orig"]
    [] OTHER -> [slug |-> n]

RecordOf(n, kind) ==
  CASE kind = "keyless" -> NoRecipe
    [] kind = "slug-marked" ->
         Put(Fresh(n), "extras", [translated |-> StrTrueCap])
    [] OTHER -> Fresh(n)

SettingsChoices ==
  [batch_size : 1..MaxBatchSize, dry_run : {FALSE},
   dry_run_limit : {DefaultDryRunLimit}]
  \cup [batch_size : 1..MaxBatchSize, dry_run : {TRUE},
        dry_run_limit : 1..MaxLimit]

\* a store and its listing
StoreStart ==
  \E n \in 0..MaxRecipes : \E kinds \in [1..n -> EntryKinds] :
    /\ catalog = [k \in 1..n |-> SummaryOf(k, kinds[k])]
    /\ store = [s \in Slugs |->
                  IF s <= n THEN RecordOf(s, kinds[s]) ELSE NoRecipe]

\* the program before its first invocation
Start ==
  /\ pc = "idle"
  /\ all_recipes = <<>>
  /\ fi = 1
  /\ unprocessed_recipes = <<>>
  /\ stats = EmptyListingStats
  /\ total_batches = 0
  /\ batch_num = 0
  /\ batch = <<>>
  /\ bi = 1
  /\ batch_stats = ZeroBatchStats
  /\ result = NoResult
  /\ single = NoResult
  /\ direct = FALSE
  /\ batches = <<>>
  /\ calls = NoCalls
  /\ failures = {}
  /\ translations = [s \in Slugs |-> 0]
  /\ past = <<>>
  /\ nfaults = 0
  /\ envMoves = 0
  /\ sleeps = <<>>

\* one invocation of the program, under any settings
Init ==
  /\ settings \in SettingsChoices
  /\ runsLeft = 1
  /\ StoreStart
  /\ Start
  /\ probe = NoRecipe
  /\ verdict = NoResult
  /\ LibIdle

\* MaxRuns invocations of process_all_recipes in succession, dry_run unset
InitRuns ==
  /\ settings \in {c \in SettingsChoices : ~c.dry_run}
  /\ runsLeft = MaxRuns
  /\ StoreStart
  /\ Start
  /\ probe = NoRecipe
  /\ verdict = NoResult
  /\ LibIdle

(***************************************************************************)
(* MealieClient.get_all_recipes: every entry of the listing whose recipe   *)
(* the store still holds, in listing order.                                *)
(***************************************************************************)
Listed(entry, st) ==
  LET slug == recipe_slug_of(entry)
  IN  ~Truthy(slug) \/ st[slug] # NoRecipe

get_all_recipes(cat, st) == SelectSeq(cat, LAMBDA e : Listed(e, st))

(***************************************************************************)
(* process_all_recipes, step by step.                                      *)
(***************************************************************************)
\* what is remembered of an invocation that ended: how, what it returned and
\* which kinds of call failed in it
Ended ==
  [how |-> pc, result |-> result, failed |-> {f[2] : f \in failures},
   envMoves |-> envMoves]

\* the call of get_all_recipes and the test for an empty listing
StartRun ==
  /\ pc \in {"idle", "returned", "raised"}
  /\ runsLeft > 0
  /\ runsLeft' = runsLeft - 1
  /\ past' = IF pc = "idle" THEN past ELSE Append(past, Ended)
  /\ batches' = <<>>
  /\ calls' = NoCalls
  /\ failures' = {}
  /\ single' = NoResult
  /\ fi' = 1
  /\ unprocessed_recipes' = <<>>
  /\ stats' = EmptyListingStats
  /\ total_batches' = 0
  /\ batch_num' = 0
  /\ batch' = <<>>
  /\ bi' = 1
  /\ batch_stats' = ZeroBatchStats
  /\ sleeps' = <<>>
  /\ \E net \in Net :
       /\ net = "error" => nfaults < MaxFaults
       /\ nfaults' = IF net = "error" THEN nfaults + 1 ELSE nfaults
       /\ IF net = "error"
          THEN /\ pc' = "raised"
               /\ all_recipes' = <<>>
               /\ result' = NoResult
          ELSE /\ all_recipes' = get_all_recipes(catalog, store)
               /\ IF all_recipes' = <<>>
                  THEN pc' = "returned" /\ result' = EmptyListingStats
                  ELSE pc' = "filter" /\ result' = NoResult
  /\ UNCHANGED <<settings, catalog, store, translations, envMoves>>
  /\ UNCHANGED <<direct, probeVars, libVars>>

\* one pass of the filter loop
FilterStep ==
  /\ pc = "filter"
  /\ fi <= Len(all_recipes)
  /\ LET recipe == all_recipes[fi]
         slug == recipe_slug_of(recipe)
     IN  IF ~Truthy(slug)
         THEN /\ fi' = fi + 1
              /\ UNCHANGED <<pc, unprocessed_recipes, calls, failures, nfaults>>
         ELSE \E net \in Net :
                LET g == get_recipe_details(store, slug, net)
                IN  /\ net = "error" => nfaults < MaxFaults
                    /\ nfaults' = IF net = "error" THEN nfaults + 1 ELSE nfaults
                    /\ calls' = Record(calls, slug, {"ffetch"})
                    /\ failures' =
                         IF g.raised THEN failures \cup {<<slug, "ffetch">>}
                         ELSE IF g.value = NoRecipe
                         THEN failures \cup {<<slug, "ffetch404">>}
                         ELSE failures
                    /\ IF g.raised
                       THEN /\ pc' = "raised"
                            /\ UNCHANGED <<fi, unprocessed_recipes>>
                       ELSE /\ pc' = pc
                            /\ fi' = fi + 1
                            /\ unprocessed_recipes' =
                                 IF KeepsCandidate(g.value)
                                 THEN Append(unprocessed_recipes, recipe)
                                 ELSE unprocessed_recipes
  /\ UNCHANGED <<settings, catalog, store, runsLeft, all_recipes, stats,
                 total_batches, batch_num, batch, bi, batch_stats, result,
                 single, batches, translations, past, envMoves, sleeps>>
  /\ UNCHANGED <<direct, probeVars, libVars>>

\* after the filter loop: nothing to do, or the set-up of the batch loop,
\* in which the division by batch_size = 0 raises ZeroDivisionError
EndFilter ==
  /\ pc = "filter"
  /\ fi > Len(all_recipes)
  /\ IF unprocessed_recipes = <<>>
     THEN /\ pc' = "returned"
          /\ result' = NoUnprocessedStats(all_recipes)
          /\ UNCHANGED <<stats, total_batches, batch_num>>
     ELSE IF settings.batch_size = 0
     THEN /\ pc' = "raised"
          /\ stats' = InitialStats(unprocessed_recipes)
          /\ UNCHANGED <<total_batches, batch_num, result>>
     ELSE /\ pc' = "batches"
          /\ stats' = InitialStats(unprocessed_recipes)
          /\ total_batches' =
               TotalBatches(Len(unprocessed_recipes), settings.batch_size)
          /\ batch_num' = 0
          /\ UNCHANGED result
  /\ UNCHANGED <<settings, catalog, store, runsLeft, all_recipes, fi,
                 unprocessed_recipes, batch, bi, batch_stats, single, batches,
                 calls, failures, translations, past, nfaults, envMoves,
                 sleeps>>
  /\ UNCHANGED <<direct, probeVars, libVars>>

\* the head of the batch loop: slice the batch and enter the batch step
BatchStart ==
  /\ pc = "batches"
  /\ batch_num < total_batches
  /\ batch' = BatchSlice(unprocessed_recipes, batch_num, settings.batch_size)
  /\ bi' = 1
  /\ batch_stats' = ZeroBatchStats
  /\ batches' = Append(batches, batch')
  /\ pc' = "items"
  /\ UNCHANGED <<settings, catalog, store, runsLeft, all_recipes, fi,
                 unprocessed_recipes, stats, total_batches, batch_num, result,
                 single, calls, failures, translations, past, nfaults,
                 envMoves, sleeps>>
  /\ UNCHANGED <<direct, probeVars, libVars>>

\* one pass of the loop of _process_recipe_batch
ItemStep ==
  /\ pc = "items"
  /\ bi <= Len(batch)
  /\ \E o \in Outcomes :
       LET r == ProcessItem(store, batch[bi], o)
           slug == recipe_slug_of(batch[bi])
       IN  /\ Errors(o) \subseteq r.calls
           /\ nfaults + Cardinality(Errors(o)) <= MaxFaults
           /\ nfaults' = nfaults + Cardinality(Errors(o))
           /\ store' = r.store
           /\ batch_stats' = BumpAll(batch_stats, r.bumps)
           /\ sleeps' = sleeps \o r.slept
           /\ IF r.raised
              THEN pc' = "raised" /\ bi' = bi
              ELSE pc' = pc /\ bi' = bi + 1
           /\ IF Truthy(slug)
              THEN /\ calls' = Record(calls, slug, r.calls)
                   /\ failures' = failures \cup {<<slug, c>> : c \in r.failed}
                   /\ translations' =
                        IF "translate" \in r.calls
                        THEN [translations EXCEPT ![slug] = @ + 1]
                        ELSE translations
              ELSE UNCHANGED <<calls, failures, translations>>
  /\ UNCHANGED <<settings, catalog, runsLeft, all_recipes, fi, unprocessed_recipes,
                 stats, total_batches, batch_num, batch, result, single,
                 batches, past, envMoves>>
  /\ UNCHANGED <<direct, probeVars, libVars>>

\* the batch step returns: its counters are added to the run's
BatchEnd ==
  /\ pc = "items"
  /\ ~direct
  /\ bi > Len(batch)
  /\ stats' = AddBatchStats(stats, batch_stats)
  /\ batch_num' = batch_num + 1
  /\ sleeps' = sleeps \o BatchPause(batch_num, total_batches)
  /\ pc' = "batches"
  /\ UNCHANGED <<settings, catalog, store, runsLeft, all_recipes, fi,
                 unprocessed_recipes, total_batches, batch, bi, batch_stats,
                 result, single, batches, calls, failures, translations, past,
                 nfaults, envMoves>>
  /\ UNCHANGED <<direct, probeVars, libVars>>

\* the batch step called on its own returns its counters
BatchReturn ==
  /\ pc = "items"
  /\ direct
  /\ bi > Len(batch)
  /\ pc' = "batch_returned"
  /\ UNCHANGED <<settings, catalog, store, runsLeft, stats, total_batches,
                 batch_num, all_recipes, fi, unprocessed_recipes, batch, bi,
                 batch_stats, result, single, batches, calls, failures,
                 translations, past, nfaults, envMoves, sleeps, direct, probeVars,
                 libVars>>

\* after the last batch: return stats
ReturnStats ==
  /\ pc = "batches"
  /\ batch_num >= total_batches
  /\ result' = stats
  /\ pc' = "returned"
  /\ UNCHANGED <<settings, catalog, store, runsLeft, all_recipes, fi,
                 unprocessed_recipes, stats, total_batches, batch_num, batch,
                 bi, batch_stats, single, batches, calls, failures,
                 translations, past, nfaults, envMoves, sleeps>>
  /\ UNCHANGED <<direct, probeVars, libVars>>

(***************************************************************************)
(* _process_recipe_batch called on its own, as the tests call it, with a   *)
(* prefix of the listing (the empty list included).                        *)
(***************************************************************************)
CallBatch ==
  /\ pc = "idle"
  /\ \E n \in 0..Len(catalog) : batch' = SubSeq(catalog, 1, n)
  /\ bi' = 1
  /\ batch_stats' = ZeroBatchStats
  /\ batches' = <<batch'>>
  /\ direct' = TRUE
  /\ pc' = "items"
  /\ UNCHANGED <<settings, catalog, store, runsLeft, all_recipes, fi,
                 unprocessed_recipes, stats, total_batches, batch_num, result,
                 single, calls, failures, translations, past, nfaults,
                 envMoves, sleeps, probeVars, libVars>>

(***************************************************************************)
(* process_single_recipe: the other entry point of an invocation.          *)
(***************************************************************************)
ProcessSingle ==
  /\ pc = "idle"
  /\ \E slug \in Slugs : \E o \in Outcomes :
       LET r == process_single_recipe(store, slug, o)
       IN  /\ Errors(o) \subseteq r.calls
           /\ nfaults + Cardinality(Errors(o)) <= MaxFaults
           /\ nfaults' = nfaults + Cardinality(Errors(o))
           /\ store' = r.store
           /\ single' = [value |-> r.value, slug |-> slug]
           /\ calls' = Record(calls, slug, r.calls)
           /\ failures' = failures \cup {<<slug, c>> : c \in r.failed}
           /\ translations' =
                IF "translate" \in r.calls
                THEN [translations EXCEPT ![slug] = @ + 1]
                ELSE translations
  /\ pc' = "single_returned"
  /\ UNCHANGED <<settings, catalog, runsLeft, result, batches, past, envMoves,
                 sleeps>>
  /\ UNCHANGED runVars
  /\ UNCHANGED <<direct, probeVars, libVars>>

(***************************************************************************)
(* The store is shared: somebody else may mark or delete a recipe while    *)
(* a run of process_all_recipes is under way.                              *)
(***************************************************************************)
ExternalMark ==
  /\ envMoves < MaxEnv
  /\ pc \in {"filter", "batches", "items"}
  /\ ~direct
  /\ \E s \in Slugs :
       /\ store[s] # NoRecipe
       /\ ~is_recipe_processed(store[s])
       /\ store' = [store EXCEPT ![s] =
                      Put(@, "extras",
                          Put(Get(@, "extras", EmptyDict), "translated", StrOne))]
  /\ envMoves' = envMoves + 1
  /\ UNCHANGED <<settings, catalog, pc, runsLeft, result, single, batches, calls,
                 failures, translations, past, nfaults, sleeps>>
  /\ UNCHANGED runVars
  /\ UNCHANGED <<direct, probeVars, libVars>>

ExternalDelete ==
  /\ envMoves < MaxEnv
  /\ pc \in {"filter", "batches", "items"}
  /\ ~direct
  /\ \E s \in Slugs :
       /\ store[s] # NoRecipe
       /\ store' = [store EXCEPT ![s] = NoRecipe]
  /\ envMoves' = envMoves + 1
  /\ UNCHANGED <<settings, catalog, pc, runsLeft, result, single, batches, calls,
                 failures, translations, past, nfaults, sleeps>>
  /\ UNCHANGED runVars
  /\ UNCHANGED <<direct, probeVars, libVars>>

Next ==
  \/ StartRun
  \/ FilterStep
  \/ EndFilter
  \/ BatchStart
  \/ ItemStep
  \/ BatchEnd
  \/ BatchReturn
  \/ ReturnStats
  \/ CallBatch
  \/ ProcessSingle
  \/ ExternalMark
  \/ ExternalDelete

Spec == Init /\ [][Next]_vars

SpecRuns == InitRuns /\ [][Next]_vars

(***************************************************************************)
(* is_recipe_processed called on its own, on records of every shape of     *)
(* extras and with every capitalisation of a few marker words.             *)
(***************************************************************************)
StrFalse == <<"f", "a", "l", "s", "e">>

MarkerWords ==
  {StrTrue, StrOne, StrFalse, <<"0">>, <<"y", "e", "s">>, <<>>,
   <<"t", "r", "u">>, <<"t", "r", "u", "e", "e">>}

UpperChar(c) ==
  IF \E n \in DOMAIN LowerCase : LowerCase[n] = c
  THEN UpperCase[CHOOSE n \in DOMAIN LowerCase : LowerCase[n] = c]
  ELSE c

\* word with the letters at the positions in caps capitalised
Capitalised(word, caps) ==
  [n \in DOMAIN word |-> IF n \in caps THEN UpperChar(word[n]) ELSE word[n]]

ExtrasShapes == {"absent", "empty", "other", "translated", "both"}

ProbeRecipe(shape, value) ==
  CASE shape = "absent" -> Fresh(1)
    [] shape = "empty" -> Put(Fresh(1), "extras", EmptyDict)
    [] shape = "other" -> Put(Fresh(1), "extras", [other_field |-> value])
    [] shape = "translated" -> Put(Fresh(1), "extras", [translated |-> value])
    [] OTHER ->
         Put(Fresh(1), "extras", [translated |-> value, other_field |-> StrTrue])

InitMarker ==
  /\ settings = [batch_size |-> 1, dry_run |-> FALSE,
                 dry_run_limit |-> DefaultDryRunLimit]
  /\ runsLeft = 0
  /\ catalog = <<>>
  /\ store = [s \in Slugs |-> NoRecipe]
  /\ Start
  /\ \E shape \in ExtrasShapes : \E word \in MarkerWords :
       \E caps \in SUBSET DOMAIN word :
         probe = [recipe |-> ProbeRecipe(shape, Capitalised(word, caps)),
                  shape |-> shape, word |-> word]
  /\ verdict = NoResult
  /\ LibIdle

CheckMarker ==
  /\ probe # NoRecipe
  /\ verdict = NoResult
  /\ verdict' = [value |-> is_recipe_processed(probe.recipe)]
  /\ UNCHANGED <<settings, catalog, store, pc, runsLeft, result, single,
                 batches, calls, failures, translations, past, nfaults,
                 envMoves, sleeps, direct, probe>>
  /\ UNCHANGED runVars
  /\ UNCHANGED libVars

NextMarker == CheckMarker

SpecMarker == InitMarker /\ [][NextMarker]_vars

(***************************************************************************)
(* The recipe processor at rest, while a part of the translator or of the  *)
(* client is exercised on its own.                                         *)
(***************************************************************************)
ProcessorIdle ==
  /\ settings = [batch_size |-> 1, dry_run |-> FALSE,
                 dry_run_limit |-> DefaultDryRunLimit]
  /\ runsLeft = 0
  /\ catalog = <<>>
  /\ store = [s \in Slugs |-> NoRecipe]
  /\ Start
  /\ probe = NoRecipe
  /\ verdict = NoResult

(***************************************************************************)
(* OpenAITranslator._call_openai: the retry loop around the provider call. *)
(* The exception raised by attempt number a (0-based) is named a + 1.      *)
(***************************************************************************)
RECURSIVE Pow2(_)
Pow2(n) == IF n = 0 THEN 1 ELSE 2 * Pow2(n - 1)

\* faulty variant: the delay grows linearly
BackoffDelayLinear(retry_delay, attempt) == retry_delay * (attempt + 1)

\* self.retry_delay * (2**attempt)
BackoffDelay(retry_delay, attempt) == retry_delay * Pow2(attempt)

\* faulty variant: a sleep follows the last failure too
RetriesLeftAlways(attempt, max_retries) == attempt < max_retries

\* if attempt < self.max_retries - 1
RetriesLeft(attempt, max_retries) == attempt < max_retries - 1

\* message.content of a provider response: None, or a text
NoContent == [none |-> TRUE]

\* message.content that is a str
Text(s) == [text |-> s]

Contents == {NoContent, Text(<<>>), Text(<<" ", "a", " ">>)}

\* the whitespace characters of the model's alphabet
Whitespace == {" ", "\n"}

RECURSIVE LStrip(_)
LStrip(s) == IF s # <<>> /\ Head(s) \in Whitespace THEN LStrip(Tail(s)) ELSE s

RECURSIVE RStrip(_)
RStrip(s) ==
  IF s # <<>> /\ s[Len(s)] \in Whitespace
  THEN RStrip(SubSeq(s, 1, Len(s) - 1))
  ELSE s

\* str.strip()
Strip(s) == RStrip(LStrip(s))

\* content.strip() if content else ""
ContentText(content) ==
  IF content = NoContent THEN <<>>
  ELSE IF content.text = <<>> THEN <<>>
  ELSE Strip(content.text)

\* raise TranslationError(..., provider="openai", cause=e)
OpenAIError(e) == [raised |-> TRUE, provider |-> "openai", cause |-> e]

InitRetry ==
  /\ ProcessorIdle
  /\ ingredient_batch = NoCall
  /\ factory = NoCall
  /\ startup = NoCall
  /\ listing = NoCall
  /\ cli = NoCall
  /\ concurrent = NoCall
  /\ marking = NoCall
  /\ \E m \in 0..MaxRetries : \E d \in 0..MaxDelay :
       retry = [max_retries |-> m, retry_delay |-> d, attempt |-> 0,
                at |-> "loop", created |-> 0, errors |-> <<>>, sleeps |-> <<>>,
                outcome |-> NoResult]

\* one pass of the loop in which the provider answers
AttemptSucceeds ==
  /\ retry # NoCall
  /\ retry.at = "loop"
  /\ retry.attempt < retry.max_retries
  /\ \E content \in Contents :
       retry' = [retry EXCEPT
                   !.created = @ + 1,
                   !.at = "done",
                   !.outcome = [raised |-> FALSE, value |-> ContentText(content)]]
  /\ UNCHANGED <<processorVars, ingredient_batch, factory, startup, listing, cli,
                 concurrent, marking>>

\* one pass of the loop in which the provider call raises
AttemptFails ==
  /\ retry # NoCall
  /\ retry.at = "loop"
  /\ retry.attempt < retry.max_retries
  /\ LET e == retry.attempt + 1
     IN  IF RetriesLeft(retry.attempt, retry.max_retries)
         THEN retry' = [retry EXCEPT
                          !.created = @ + 1,
                          !.errors = Append(@, e),
                          !.sleeps =
                            Append(@, BackoffDelay(retry.retry_delay,
                                                   retry.attempt)),
                          !.attempt = @ + 1]
         ELSE retry' = [retry EXCEPT
                          !.created = @ + 1,
                          !.errors = Append(@, e),
                          !.at = "done",
                          !.outcome = OpenAIError(e)]
  /\ UNCHANGED <<processorVars, ingredient_batch, factory, startup, listing, cli,
                 concurrent, marking>>

\* the loop ran out without a pass (max_retries = 0): return ""
FallbackReturn ==
  /\ retry # NoCall
  /\ retry.at = "loop"
  /\ retry.attempt >= retry.max_retries
  /\ retry' = [retry EXCEPT !.at = "done",
                            !.outcome = [raised |-> FALSE, value |-> <<>>]]
  /\ UNCHANGED <<processorVars, ingredient_batch, factory, startup, listing, cli,
                 concurrent, marking>>

NextRetry ==
  \/ AttemptSucceeds
  \/ AttemptFails
  \/ FallbackReturn

SpecRetry == InitRetry /\ [][NextRetry]_vars

(***************************************************************************)
(* _translate_ingredient_batch (OpenAITranslator and RecipeTranslator      *)
(* alike): the numbered-line protocol.  The provider's answer is any text  *)
(* of up to MaxLines lines; it reaches the parser through _call_openai.    *)
(***************************************************************************)
\* the first position of sub in s at or after position i, or 0
RECURSIVE Find(_, _, _)
Find(s, sub, i) ==
  IF i + Len(sub) - 1 > Len(s) THEN 0
  ELSE IF SubSeq(s, i, i + Len(sub) - 1) = sub THEN i
  ELSE Find(s, sub, i + 1)

\* s.split(sep)
RECURSIVE Split(_, _)
Split(s, sep) ==
  LET i == Find(s, sep, 1)
  IN  IF i = 0 THEN <<s>>
      ELSE <<SubSeq(s, 1, i - 1)>> \o Split(SubSeq(s, i + Len(sep), Len(s)), sep)

\* sep.join(parts)
RECURSIVE Join(_, _)
Join(parts, sep) ==
  IF parts = <<>> THEN <<>>
  ELSE IF Len(parts) = 1 THEN parts[1]
  ELSE parts[1] \o sep \o Join(Tail(parts), sep)

NewLine == <<"\n">>

DotSpace == <<".", " ">>

\* line.split(". ", 1)[1] if ". " in line else line
Unnumbered(line) ==
  LET i == Find(line, DotSpace, 1)
  IN  IF i = 0 THEN line ELSE SubSeq(line, i + 2, Len(line))

\* the loop over translated_lines
RECURSIVE ParseLines(_)
ParseLines(translated_lines) ==
  IF translated_lines = <<>> THEN <<>>
  ELSE <<Unnumbered(Head(translated_lines))>> \o ParseLines(Tail(translated_lines))

\* while len(translated_texts) < len(texts): append texts[len(translated_texts)]
RECURSIVE PadWithOriginals(_, _)
PadWithOriginals(translated_texts, texts) ==
  IF Len(translated_texts) < Len(texts)
  THEN PadWithOriginals(
         Append(translated_texts, texts[Len(translated_texts) + 1]), texts)
  ELSE translated_texts

\* translated_texts[: len(texts)]
Truncate(translated_texts, n) ==
  IF Len(translated_texts) <= n THEN translated_texts
  ELSE SubSeq(translated_texts, 1, n)

\* what _translate_ingredient_batch makes of the provider's response
translate_ingredient_batch(texts, response) ==
  IF texts = <<>> THEN texts
  ELSE LET translated_lines == Split(Strip(response), NewLine)
       IN  Truncate(PadWithOriginals(ParseLines(translated_lines), texts),
                    Len(texts))

\* the ingredient texts of a recipe
IngredientTexts ==
  <<<<"2", " ", "c", "u", "p">>, <<"1", " ", "l", "b">>, <<"s", "a", "l", "t">>>>

\* lines a provider may answer with: numbered, not numbered, with a full stop
\* inside the text, empty
AnswerLines ==
  {<<"1", ".", " ", "a">>, <<"2", ".", " ", "b">>, <<"1", ".", " ", "a", ".", " ", "b">>,
   <<"a">>, <<"a", ".", " ", "b">>, <<>>}

InitIngredients ==
  /\ ProcessorIdle
  /\ retry = NoCall
  /\ factory = NoCall
  /\ startup = NoCall
  /\ listing = NoCall
  /\ cli = NoCall
  /\ concurrent = NoCall
  /\ marking = NoCall
  /\ \E n \in 0..MaxTexts : \E k \in 0..MaxLines :
       \E answer \in [1..k -> AnswerLines] :
         ingredient_batch =
           [texts |-> SubSeq(IngredientTexts, 1, n),
            content |-> Text(Join(answer, NewLine)),
            at |-> "called",
            response |-> <<>>,
            output |-> <<>>]

\* the call of _call_openai and the parsing of its return value
TranslateIngredientBatch ==
  /\ ingredient_batch # NoCall
  /\ ingredient_batch.at = "called"
  /\ LET response == ContentText(ingredient_batch.content)
     IN  ingredient_batch' =
           [ingredient_batch EXCEPT
              !.at = "returned",
              !.response = IF ingredient_batch.texts = <<>> THEN <<>> ELSE response,
              !.output = translate_ingredient_batch(ingredient_batch.texts,
                                                    response)]
  /\ UNCHANGED <<processorVars, retry, factory, startup, listing, cli,
                 concurrent, marking>>

NextIngredients == TranslateIngredientBatch

SpecIngredients == InitIngredients /\ [][NextIngredients]_vars

(***************************************************************************)
(* TranslatorFactory.create_translator.  The settings name a provider and  *)
(* hold the provider's configuration; the environment decides whether the  *)
(* translator's constructor raises and what is_available() answers.        *)
(***************************************************************************)
StrOpenAI == <<"o", "p", "e", "n", "a", "i">>

StrOllama == <<"o", "l", "l", "a", "m", "a">>

ProviderNames ==
  {StrOpenAI, <<"O", "p", "e", "n", "A", "I">>, StrOllama,
   <<"O", "L", "L", "A", "M", "A">>, <<"d", "e", "e", "p", "l">>}

\* a configuration value: missing (the empty string) or given
ConfigValues == {<<>>, <<"x">>}

FactorySettings ==
  [translator_provider : ProviderNames, openai_api_key : ConfigValues,
   ollama_base_url : ConfigValues, ollama_model : ConfigValues]

\* TranslationError(message, provider=provider, cause=cause)
TranslationError(provider, cause) ==
  [type |-> "TranslationError", provider |-> provider, cause |-> cause]

\* an exception raised by a translator's constructor
ConstructorError == [type |-> "Exception"]

NoCause == [none |-> TRUE]

FactoryRaises(error, constructed, checked) ==
  [raised |-> TRUE, error |-> error, constructed |-> constructed,
   checked |-> checked]

FactoryReturns(name, available, constructed) ==
  [raised |-> FALSE, translator |-> [provider |-> name, available |-> available],
   constructed |-> constructed, checked |-> {name}]

\* faulty variant: the translator is returned without regard to is_available()
IsAvailableIgnored(available) == TRUE

\* if not translator.is_available(): raise ...
IsAvailable(available) == available

\* the try block of _create_openai_translator / _create_ollama_translator,
\* and its except clause, which wraps whatever the block raised
CreateProviderTranslator(name, configured, env) ==
  IF ~configured
  THEN FactoryRaises(TranslationError(name, TranslationError(name, NoCause)),
                     {}, {})
  ELSE IF env.constructor_raises
  THEN FactoryRaises(TranslationError(name, ConstructorError), {}, {})
  ELSE IF ~IsAvailable(env.available)
  THEN FactoryRaises(TranslationError(name, TranslationError(name, NoCause)),
                     {name}, {name})
  ELSE FactoryReturns(name, env.available, {name})

create_openai_translator(s, env) ==
  CreateProviderTranslator("openai", s.openai_api_key # <<>>, env)

create_ollama_translator(s, env) ==
  CreateProviderTranslator("ollama",
                           s.ollama_base_url # <<>> /\ s.ollama_model # <<>>,
                           env)

InitFactory ==
  /\ ProcessorIdle
  /\ retry = NoCall
  /\ ingredient_batch = NoCall
  /\ startup = NoCall
  /\ listing = NoCall
  /\ cli = NoCall
  /\ concurrent = NoCall
  /\ marking = NoCall
  /\ \E s \in FactorySettings :
       \E env \in [constructor_raises : BOOLEAN, available : BOOLEAN] :
         factory = [settings |-> s, env |-> env, at |-> "called",
                    outcome |-> NoResult]

\* provider == "openai"
CreateOpenAI ==
  /\ factory # NoCall
  /\ factory.at = "called"
  /\ StrLower(factory.settings.translator_provider) = StrOpenAI
  /\ factory' = [factory EXCEPT
                   !.at = "done",
                   !.outcome = create_openai_translator(factory.settings,
                                                        factory.env)]
  /\ UNCHANGED <<processorVars, retry, ingredient_batch, startup, listing, cli,
                 concurrent, marking>>

\* provider == "ollama"
CreateOllama ==
  /\ factory # NoCall
  /\ factory.at = "called"
  /\ StrLower(factory.settings.translator_provider) = StrOllama
  /\ factory' = [factory EXCEPT
                   !.at = "done",
                   !.outcome = create_ollama_translator(factory.settings,
                                                        factory.env)]
  /\ UNCHANGED <<processorVars, retry, ingredient_batch, startup, listing, cli,
                 concurrent, marking>>

\* any other provider name
CreateUnsupported ==
  /\ factory # NoCall
  /\ factory.at = "called"
  /\ StrLower(factory.settings.translator_provider) \notin {StrOpenAI, StrOllama}
  /\ factory' = [factory EXCEPT
                   !.at = "done",
                   !.outcome = FactoryRaises(TranslationError("None", NoCause),
                                             {}, {})]
  /\ UNCHANGED <<processorVars, retry, ingredient_batch, startup, listing, cli,
                 concurrent, marking>>

NextFactory ==
  \/ CreateOpenAI
  \/ CreateOllama
  \/ CreateUnsupported

SpecFactory == InitFactory /\ [][NextFactory]_vars

(***************************************************************************)
(* RecipeProcessor.__init__ followed by an invocation: the processor is    *)
(* constructed from settings that select a translation provider, which is  *)
(* reachable or not when the program starts.                               *)
(***************************************************************************)
\* the provider configurations a program may start with
StartupSettings ==
  {c \in FactorySettings :
     /\ c.translator_provider \in {StrOpenAI, StrOllama}
     /\ c.translator_provider = StrOpenAI =>
          c.ollama_base_url # <<>> /\ c.ollama_model # <<>>
     /\ c.translator_provider = StrOllama =>
          c.openai_api_key = <<>> /\ c.ollama_model # <<>>}

\* RecipeTranslator.__init__: OpenAI(api_key=settings.openai_api_key) and
\* four assignments; nothing is checked and no request is made
RecipeTranslatorInit(s) == [raised |-> FALSE, api_key |-> s.openai_api_key]

InitStartup ==
  /\ settings = [batch_size |-> MaxBatchSize, dry_run |-> FALSE,
                 dry_run_limit |-> DefaultDryRunLimit]
  /\ runsLeft = 1
  /\ StoreStart
  /\ Start
  /\ probe = NoRecipe
  /\ verdict = NoResult
  /\ retry = NoCall
  /\ ingredient_batch = NoCall
  /\ factory = NoCall
  /\ listing = NoCall
  /\ cli = NoCall
  /\ concurrent = NoCall
  /\ marking = NoCall
  /\ \E s \in StartupSettings : \E reachable \in BOOLEAN :
       startup = [settings |-> s, reachable |-> reachable, at |-> "new"]

\* RecipeProcessor(settings)
ConstructProcessor ==
  /\ startup # NoCall
  /\ startup.at = "new"
  /\ startup' = [startup EXCEPT
                   !.at = IF RecipeTranslatorInit(startup.settings).raised
                          THEN "failed"
                          ELSE "constructed"]
  /\ UNCHANGED <<processorVars, retry, ingredient_batch, factory, listing, cli,
                 concurrent, marking>>

\* the methods of a constructed processor
Constructed ==
  /\ startup # NoCall
  /\ startup.at = "constructed"
  /\ Next

NextStartup ==
  \/ ConstructProcessor
  \/ Constructed

SpecStartup == InitStartup /\ [][NextStartup]_vars

(***************************************************************************)
(* MealieClient.get_all_recipes, page by page.  The store holds recipes    *)
(* 1..stored and serves page p of the size asked for, or of a smaller size *)
(* of its own (cap); any request may fail.                                 *)
(***************************************************************************)
\* the sizes a store may limit its pages to
PageCaps == {per_page, per_page \div 2}

\* the sequence <<lo, ..., hi>>
Range(lo, hi) == [n \in 1..(hi - lo + 1) |-> lo + n - 1]

\* data.get("items", []) of the response to page, perPage
ServedItems(stored, cap, page, perPage) ==
  LET size == IF cap < perPage THEN cap ELSE perPage
      lo == (page - 1) * size + 1
      hi == IF page * size < stored THEN page * size ELSE stored
  IN  IF lo > hi THEN <<>> ELSE Range(lo, hi)

\* faulty variant: a full page ends the loop too
ReachedEndFull(batch_recipes) == Len(batch_recipes) <= per_page

\* if len(batch_recipes) < per_page: break
ReachedEnd(batch_recipes) == Len(batch_recipes) < per_page

InitListing ==
  /\ ProcessorIdle
  /\ retry = NoCall
  /\ ingredient_batch = NoCall
  /\ factory = NoCall
  /\ startup = NoCall
  /\ cli = NoCall
  /\ concurrent = NoCall
  /\ marking = NoCall
  /\ \E stored \in 0..MaxStored : \E cap \in PageCaps :
       listing = [stored |-> stored, cap |-> cap, page |-> 1, recipes |-> <<>>,
                  requests |-> <<>>, at |-> "loop", returned |-> NoResult]

\* one pass of the while loop in which the request succeeds
FetchPage ==
  /\ listing # NoCall
  /\ listing.at = "loop"
  /\ LET params == [page |-> listing.page, perPage |-> per_page]
         batch_recipes ==
           ServedItems(listing.stored, listing.cap, params.page, params.perPage)
         asked == Append(listing.requests, params)
     IN  IF batch_recipes = <<>>
         THEN listing' = [listing EXCEPT !.requests = asked,
                                         !.at = "returned",
                                         !.returned = listing.recipes]
         ELSE IF ReachedEnd(batch_recipes)
         THEN listing' = [listing EXCEPT
                            !.requests = asked,
                            !.recipes = @ \o batch_recipes,
                            !.at = "returned",
                            !.returned = listing.recipes \o batch_recipes]
         ELSE listing' = [listing EXCEPT
                            !.requests = asked,
                            !.recipes = @ \o batch_recipes,
                            !.page = @ + 1]
  /\ UNCHANGED <<processorVars, retry, ingredient_batch, factory, startup, cli,
                 concurrent, marking>>

\* one pass of the while loop in which the request raises
FetchPageFails ==
  /\ listing # NoCall
  /\ listing.at = "loop"
  /\ listing' = [listing EXCEPT
                   !.requests =
                     Append(@, [page |-> listing.page, perPage |-> per_page]),
                   !.at = "raised"]
  /\ UNCHANGED <<processorVars, retry, ingredient_batch, factory, startup, cli,
                 concurrent, marking>>

NextListing ==
  \/ FetchPage
  \/ FetchPageFails

SpecListing == InitListing /\ [][NextListing]_vars

(***************************************************************************)
(* main: the command line entry point.  It loads and validates the         *)
(* settings, constructs the processor, runs process_single_recipe or       *)
(* process_all_recipes (or neither, under --dry-run) and returns the exit  *)
(* status.                                                                 *)
(***************************************************************************)
\* the settings main validates: each value missing or given
MainSettings ==
  [mealie_base_url : ConfigValues, openai_api_key : ConfigValues,
   mealie_api_token : ConfigValues]

\* args.recipe (None when the option is absent) and args.dry_run
MainArgs == [recipe : {None} \cup Slugs, dry_run : BOOLEAN]

\* faulty variant: a failed single recipe still exits with 0
SingleExitStatusZero(value) == 0

\* if result: ... else: return 1, then the final return 0
SingleExitStatus(value) == IF value THEN 0 ELSE 1

\* the first of the validation errors of main, if any
RequiredMissing(s) ==
  \/ s.mealie_base_url = <<>>
  \/ s.openai_api_key = <<>>
  \/ s.mealie_api_token = <<>>

InitMain ==
  /\ settings = [batch_size |-> MaxBatchSize, dry_run |-> FALSE,
                 dry_run_limit |-> DefaultDryRunLimit]
  /\ runsLeft = 1
  /\ StoreStart
  /\ Start
  /\ probe = NoRecipe
  /\ verdict = NoResult
  /\ retry = NoCall
  /\ ingredient_batch = NoCall
  /\ factory = NoCall
  /\ startup = NoCall
  /\ listing = NoCall
  /\ concurrent = NoCall
  /\ marking = NoCall
  /\ \E args \in MainArgs : \E s \in MainSettings :
       \E env \in [load_raises : BOOLEAN, construct_raises : BOOLEAN] :
         cli = [args |-> args, settings |-> s, env |-> env, at |-> "start",
                code |-> NoResult, constructed |-> FALSE]

\* from get_settings() to the call of the processor
MainStart ==
  /\ cli # NoCall
  /\ cli.at = "start"
  /\ IF cli.env.load_raises
     THEN cli' = [cli EXCEPT !.at = "exited", !.code = 1]
     ELSE IF RequiredMissing(cli.settings)
     THEN cli' = [cli EXCEPT !.at = "exited", !.code = 1]
     ELSE IF cli.env.construct_raises
     THEN cli' = [cli EXCEPT !.at = "exited", !.code = 1]
     ELSE IF cli.args.dry_run
     THEN cli' = [cli EXCEPT !.at = "exited", !.code = 0,
                             !.constructed = TRUE]
     ELSE cli' = [cli EXCEPT !.at = "processing", !.constructed = TRUE]
  /\ UNCHANGED <<processorVars, retry, ingredient_batch, factory, startup, listing,
                 concurrent, marking>>

\* processor.process_single_recipe(args.recipe)
MainSingle ==
  /\ cli # NoCall
  /\ cli.at = "processing"
  /\ Truthy(cli.args.recipe)
  /\ ProcessSingle
  /\ single'.slug = cli.args.recipe

\* processor.process_all_recipes()
MainAll ==
  /\ cli # NoCall
  /\ cli.at = "processing"
  /\ ~Truthy(cli.args.recipe)
  /\ \/ StartRun
     \/ FilterStep
     \/ EndFilter
     \/ BatchStart
     \/ ItemStep
     \/ BatchEnd
     \/ ReturnStats
     \/ ExternalMark
     \/ ExternalDelete

\* the return statements after the call of the processor, and the except clause
MainExit ==
  /\ cli # NoCall
  /\ cli.at = "processing"
  /\ pc \in {"single_returned", "returned", "raised"}
  /\ cli' = [cli EXCEPT
               !.at = "exited",
               !.code = CASE pc = "single_returned" -> SingleExitStatus(single.value)
                          [] pc = "raised" -> 1
                          [] OTHER -> 0]
  /\ UNCHANGED <<processorVars, retry, ingredient_batch, factory, startup, listing,
                 concurrent, marking>>

NextMain ==
  \/ MainStart
  \/ MainSingle
  \/ MainAll
  \/ MainExit

SpecMain == InitMain /\ [][NextMain]_vars

(***************************************************************************)
(* Runs of process_all_recipes side by side on one store.  A step is one   *)
(* call of the client or of the translator by one run; each run keeps its  *)
(* own frame and the log of the calls it made, and walks the eligible      *)
(* recipes in the order the batches hand them to the batch step.           *)
(***************************************************************************)
Runs == {1, 2}

Languages == {"English", "Spanish"}

\* what a call that raised left in the log
Raised == [raised |-> TRUE]

\* what a call that returned True or False left in the log
Returned(value) == [value |-> value]

\* the arguments of self.translator.translate_recipe(full_recipe)
TranslateArguments(f) == <<f.full_recipe>>

\* faulty variant: the recipe as fetched is sent back, not its translation
UpdateBodyOriginal(f) == f.full_recipe

\* the second argument of update_recipe(recipe_slug, translated_recipe)
UpdateBody(f) == f.translated_recipe

\* one call in a run's log: the method, its arguments and what it returned
Call(op, slug, arg, out) == [op |-> op, slug |-> slug, arg |-> arg, out |-> out]

\* RecipeTranslator.__init__: self.target_language = settings.target_language
RecipeTranslator(target_language) == [target_language |-> target_language]

\* a run that has not started
RunFrame(target_language) ==
  [at |-> "start", translator |-> RecipeTranslator(target_language),
   all_recipes |-> <<>>, fi |-> 1, unprocessed_recipes |-> <<>>, i |-> 1,
   full_recipe |-> NoRecipe, translated_recipe |-> NoRecipe,
   recipe |-> NoRecipe, stats |-> ZeroBatchStats, log |-> <<>>]

InitConcurrent ==
  /\ ProcessorIdle
  /\ retry = NoCall
  /\ ingredient_batch = NoCall
  /\ factory = NoCall
  /\ startup = NoCall
  /\ listing = NoCall
  /\ cli = NoCall
  /\ marking = NoCall
  /\ \E n \in 1..MaxShared : \E kinds \in [1..n -> {"slug", "slug-marked"}] :
       \E target_language \in Languages :
         concurrent =
           [settings |-> [target_language |-> target_language],
            catalog |-> [k \in 1..n |-> SummaryOf(k, kinds[k])],
            store |-> [s \in Slugs |->
                         IF s <= n THEN RecordOf(s, kinds[s]) ELSE NoRecipe],
            run |-> [r \in Runs |-> RunFrame(target_language)],
            faults |-> 0]

\* the outcome of a network call, within the bound on injected errors
NetOutcome(net) == net = "error" => concurrent.faults < MaxRunFaults

Faults(net) == concurrent.faults + (IF net = "error" THEN 1 ELSE 0)

\* the slug of the recipe the batch step of run r is at
RunSlug(f) == recipe_slug_of(f.unprocessed_recipes[f.i])

\* the loop of the batch step goes on to the next recipe, after counting key
RunNextItem(f, key, entries) ==
  [f EXCEPT !.stats = Bump(@, key),
            !.i = @ + 1,
            !.at = IF f.i + 1 > Len(f.unprocessed_recipes)
                   THEN "returned" ELSE "fetch",
            !.full_recipe = NoRecipe,
            !.translated_recipe = NoRecipe,
            !.recipe = NoRecipe,
            !.log = @ \o entries]

\* all_recipes = self.mealie_client.get_all_recipes()
RunList(r) ==
  /\ concurrent.run[r].at = "start"
  /\ \E net \in Net :
       /\ NetOutcome(net)
       /\ LET f == concurrent.run[r]
              all == get_all_recipes(concurrent.catalog, concurrent.store)
              g == IF net = "error"
                   THEN [f EXCEPT !.at = "raised"]
                   ELSE [f EXCEPT !.all_recipes = all,
                                  !.at = IF all = <<>> THEN "returned"
                                         ELSE "filter"]
          IN  concurrent' = [concurrent EXCEPT !.run[r] = g,
                                               !.faults = Faults(net)]

\* one pass of the filter loop: get_recipe_details and is_recipe_processed
RunFilter(r) ==
  /\ concurrent.run[r].at = "filter"
  /\ \E net \in Net :
       /\ NetOutcome(net)
       /\ LET f == concurrent.run[r]
              recipe == f.all_recipes[f.fi]
              slug == recipe_slug_of(recipe)
              d == get_recipe_details(concurrent.store, slug, net)
              kept == IF KeepsCandidate(d.value)
                      THEN Append(f.unprocessed_recipes, recipe)
                      ELSE f.unprocessed_recipes
              g == IF d.raised
                   THEN [f EXCEPT !.at = "raised",
                                  !.log = Append(@, Call("filter_fetch", slug,
                                                         NoRecipe, Raised))]
                   ELSE [f EXCEPT
                           !.unprocessed_recipes = kept,
                           !.fi = @ + 1,
                           !.log = Append(@, Call("filter_fetch", slug,
                                                  NoRecipe, d.value)),
                           !.at = IF f.fi + 1 <= Len(f.all_recipes)
                                  THEN "filter"
                                  ELSE IF kept = <<>> THEN "returned"
                                  ELSE "fetch"]
          IN  concurrent' = [concurrent EXCEPT !.run[r] = g,
                                               !.faults = Faults(net)]

\* the batch step: full_recipe = get_recipe_details(recipe_slug) and the
\* two tests on it
RunFetch(r) ==
  /\ concurrent.run[r].at = "fetch"
  /\ \E net \in Net :
       /\ NetOutcome(net)
       /\ LET f == concurrent.run[r]
              slug == RunSlug(f)
              d == get_recipe_details(concurrent.store, slug, net)
              g == IF d.raised
                   THEN RunNextItem(f, "failed",
                                    <<Call("fetch", slug, NoRecipe, Raised)>>)
                   ELSE IF d.value = NoRecipe
                   THEN RunNextItem(f, "failed",
                                    <<Call("fetch", slug, NoRecipe, d.value)>>)
                   ELSE IF is_recipe_processed(d.value)
                   THEN RunNextItem(f, "skipped",
                                    <<Call("fetch", slug, NoRecipe, d.value)>>)
                   ELSE [f EXCEPT !.full_recipe = d.value,
                                  !.at = "translate",
                                  !.log = Append(@, Call("fetch", slug,
                                                         NoRecipe, d.value))]
          IN  concurrent' = [concurrent EXCEPT !.run[r] = g,
                                               !.faults = Faults(net)]

\* translated_recipe = self.translator.translate_recipe(full_recipe)
RunTranslate(r) ==
  /\ concurrent.run[r].at = "translate"
  /\ \E net \in Net :
       /\ NetOutcome(net)
       /\ LET f == concurrent.run[r]
              slug == RunSlug(f)
              t == translate_recipe(f.full_recipe)
              into == [target_language |-> f.translator.target_language]
              g == IF net = "error"
                   THEN RunNextItem(f, "failed",
                                    <<Call("translate", slug,
                                           TranslateArguments(f), Raised) @@
                                      into>>)
                   ELSE [f EXCEPT !.translated_recipe = t,
                                  !.at = "update",
                                  !.log = Append(@, Call("translate", slug,
                                                         TranslateArguments(f),
                                                         t) @@ into)]
          IN  concurrent' = [concurrent EXCEPT !.run[r] = g,
                                               !.faults = Faults(net)]

\* success = self.mealie_client.update_recipe(recipe_slug, translated_recipe)
RunUpdate(r) ==
  /\ concurrent.run[r].at = "update"
  /\ \E net \in Net :
       /\ NetOutcome(net)
       /\ LET f == concurrent.run[r]
              slug == RunSlug(f)
              u == update_recipe(concurrent.store, slug, UpdateBody(f), net)
              g == IF u.raised \/ ~u.value
                   THEN RunNextItem(f, "failed",
                                    <<Call("update", slug, UpdateBody(f),
                                           Raised)>>)
                   ELSE [f EXCEPT !.at = "mark",
                                  !.log = Append(@, Call("update", slug,
                                                         UpdateBody(f),
                                                         Returned(u.value)))]
          IN  concurrent' = [concurrent EXCEPT !.run[r] = g,
                                               !.store = u.store,
                                               !.faults = Faults(net)]

\* mark_recipe_as_processed(recipe_slug), first half: the fetch, the two
\* tests on the record and the flag set in the copy held by this run
RunMarkFetch(r) ==
  /\ concurrent.run[r].at = "mark"
  /\ \E net \in Net :
       /\ NetOutcome(net)
       /\ LET f == concurrent.run[r]
              slug == RunSlug(f)
              d == get_recipe_details(concurrent.store, slug, net)
              g == IF d.raised \/ d.value = NoRecipe
                   THEN RunNextItem(f, "processed",
                                    <<Call("mark", slug, NoRecipe,
                                           Returned(FALSE))>>)
                   ELSE IF is_recipe_processed(d.value)
                   THEN RunNextItem(f, "processed",
                                    <<Call("mark", slug, NoRecipe,
                                           Returned(TRUE))>>)
                   ELSE [f EXCEPT !.recipe = SetProcessedFlag(d.value),
                                  !.at = "mark_update"]
          IN  concurrent' = [concurrent EXCEPT !.run[r] = g,
                                               !.faults = Faults(net)]

\* mark_recipe_as_processed, second half: return self.update_recipe(...)
RunMarkUpdate(r) ==
  /\ concurrent.run[r].at = "mark_update"
  /\ \E net \in Net :
       /\ NetOutcome(net)
       /\ LET f == concurrent.run[r]
              slug == RunSlug(f)
              u == update_recipe(concurrent.store, slug, f.recipe, net)
              g == RunNextItem(f, "processed",
                               <<Call("mark", slug, NoRecipe,
                                      Returned(~u.raised /\ u.value))>>)
          IN  concurrent' = [concurrent EXCEPT !.run[r] = g,
                                               !.store = u.store,
                                               !.faults = Faults(net)]

RunStep(r) ==
  /\ concurrent # NoCall
  /\ \/ RunList(r)
     \/ RunFilter(r)
     \/ RunFetch(r)
     \/ RunTranslate(r)
     \/ RunUpdate(r)
     \/ RunMarkFetch(r)
     \/ RunMarkUpdate(r)
  /\ UNCHANGED <<processorVars, retry, ingredient_batch, factory, startup,
                 listing, cli, marking>>

NextConcurrent == \E r \in Runs : RunStep(r)

SpecConcurrent == InitConcurrent /\ [][NextConcurrent]_vars

(***************************************************************************)
(* MealieClient.mark_recipe_as_processed called on its own, up to twice in *)
(* succession for one slug, on records with every shape of extras.         *)
(***************************************************************************)
MarkShapes == {"missing", "plain", "empty", "other", "false", "True", "1"}

\* a stored record whose extras have the given shape
MarkRecord(n, shape) ==
  CASE shape = "missing" -> NoRecipe
    [] shape = "plain" -> Fresh(n)
    [] shape = "empty" -> Put(Fresh(n), "extras", EmptyDict)
    [] shape = "other" -> Put(Fresh(n), "extras", [source |-> <<"w", "e", "b">>])
    [] shape = "false" ->
         Put(Fresh(n), "extras",
             [source |-> <<"w", "e", "b">>, translated |-> StrFalse])
    [] shape = "True" -> Put(Fresh(n), "extras", [translated |-> StrTrueCap])
    [] OTHER -> Put(Fresh(n), "extras", [translated |-> StrOne])

InitMarking ==
  /\ ProcessorIdle
  /\ retry = NoCall
  /\ ingredient_batch = NoCall
  /\ factory = NoCall
  /\ startup = NoCall
  /\ listing = NoCall
  /\ cli = NoCall
  /\ concurrent = NoCall
  /\ \E shapes \in [1..MaxShared -> MarkShapes] : \E recipe_slug \in 1..MaxShared :
       marking = [store |-> [s \in Slugs |->
                               IF s <= MaxShared THEN MarkRecord(s, shapes[s])
                               ELSE NoRecipe],
                  recipe_slug |-> recipe_slug,
                  done |-> <<>>]

\* one call of mark_recipe_as_processed(recipe_slug): the store it found,
\* the outcome of its GET and of its PUT, what it returned, whether it
\* issued the PUT, and the store it left
MarkRecipe ==
  /\ marking # NoCall
  /\ Len(marking.done) < MaxMarkCalls
  /\ \E netFetch \in Net : \E netUpdate \in Net :
       LET r == mark_recipe_as_processed(marking.store, marking.recipe_slug,
                                         netFetch, netUpdate)
       IN  /\ netUpdate = "error" => "mupdate" \in r.calls
           /\ marking' =
                [marking EXCEPT
                   !.store = r.store,
                   !.done = Append(@, [found |-> marking.store,
                                       get |-> netFetch,
                                       put |-> IF "mupdate" \in r.calls
                                               THEN <<netUpdate>> ELSE <<>>,
                                       value |-> r.value,
                                       raised |-> r.raised,
                                       left |-> r.store])]
  /\ UNCHANGED <<processorVars, retry, ingredient_batch, factory, startup,
                 listing, cli, concurrent>>

NextMarking == MarkRecipe

SpecMarking == InitMarking /\ [][NextMarking]_vars

(***************************************************************************)
(* is_recipe_processed on any JSON record the store can return: extras may *)
(* be missing, null or an object, and extras.translated a string, a        *)
(* boolean or a number.  JSON values are tagged with their type here; the  *)
(* filter loop of process_all_recipes then acts on what the call did.      *)
(***************************************************************************)
JsonNull == [null |-> TRUE]

JsonString(s) == [string |-> s]

JsonBoolean(b) == [boolean |-> b]

JsonNumber(n) == [number |-> n]

JsonObject(d) == [object |-> d]

\* the values extras.translated may hold
TranslatedValues ==
  {JsonString(Capitalised(word, caps)) :
     word \in MarkerWords, caps \in SUBSET {1, 2}}
  \cup {JsonBoolean(TRUE), JsonBoolean(FALSE), JsonNumber(0), JsonNumber(1),
        JsonNull}

JsonExtras ==
  {JsonNull, JsonObject(EmptyDict)}
  \cup {JsonObject([translated |-> v]) : v \in TranslatedValues}
  \cup {JsonObject([translated |-> v, other_field |-> JsonString(StrTrue)]) :
          v \in TranslatedValues}

\* the records: without extras, or with extras of any of these values
JsonRecipes ==
  {[slug |-> JsonNumber(1)]}
  \cup {[slug |-> JsonNumber(1), extras |-> e] : e \in JsonExtras}

\* AttributeError: 'NoneType' object has no attribute 'get', or a value that
\* is not a str has no attribute 'lower'
AttributeError == [raised |-> TRUE, value |-> FALSE]

\* is_recipe_processed as Python evaluates it on a parsed JSON record
is_recipe_processed_json(recipe) ==
  LET extras == Get(recipe, "extras", JsonObject(EmptyDict))
  IN  IF "object" \notin DOMAIN extras THEN AttributeError
      ELSE
      LET translated_value == Get(extras.object, "translated", JsonString(<<>>))
      IN  IF "string" \notin DOMAIN translated_value THEN AttributeError
          ELSE [raised |-> FALSE,
                value |-> StrLower(translated_value.string) \in ProcessedValues]

InitJson ==
  /\ settings = [batch_size |-> 1, dry_run |-> FALSE,
                 dry_run_limit |-> DefaultDryRunLimit]
  /\ runsLeft = 0
  /\ catalog = <<>>
  /\ store = [s \in Slugs |-> NoRecipe]
  /\ Start
  /\ \E recipe \in JsonRecipes : probe = [recipe |-> recipe]
  /\ verdict = NoResult
  /\ LibIdle

\* the call is_recipe_processed(full_recipe) made by the filter loop
CheckJson ==
  /\ probe # NoRecipe
  /\ verdict = NoResult
  /\ verdict' = [call |-> is_recipe_processed_json(probe.recipe),
                 filter |-> "calling"]
  /\ UNCHANGED <<settings, catalog, store, pc, runsLeft, result, single,
                 batches, calls, failures, translations, past, nfaults,
                 envMoves, sleeps, direct, probe>>
  /\ UNCHANGED runVars
  /\ UNCHANGED libVars

\* what the filter loop does with it: the loop has no try, so an exception
\* leaves process_all_recipes; otherwise the recipe is appended or skipped
FilterJson ==
  /\ verdict # NoResult
  /\ verdict.filter = "calling"
  /\ verdict' = [verdict EXCEPT
                   !.filter = IF verdict.call.raised THEN "raised"
                              ELSE IF ~verdict.call.value THEN "appended"
                              ELSE "skipped"]
  /\ UNCHANGED <<settings, catalog, store, pc, runsLeft, result, single,
                 batches, calls, failures, translations, past, nfaults,
                 envMoves, sleeps, direct, probe>>
  /\ UNCHANGED runVars
  /\ UNCHANGED libVars

NextJson ==
  \/ CheckJson
  \/ FilterJson

SpecJson == InitJson /\ [][NextJson]_vars

(***************************************************************************)
(* Runs of process_all_recipes one after the other, each started when the  *)
(* one before has returned or raised, with dry_run unset and nobody else   *)
(* writing to the store.  Only finitely many calls fail (nfaults is        *)
(* bounded), and there is one run more than there can be failures.         *)
(***************************************************************************)
InitConverge ==
  /\ settings \in {c \in SettingsChoices : ~c.dry_run}
  /\ runsLeft = MaxFaults + 1
  /\ \E n \in 0..MaxShared : \E kinds \in [1..n -> EntryKinds] :
       /\ catalog = [k \in 1..n |-> SummaryOf(k, kinds[k])]
       /\ store = [s \in Slugs |->
                     IF s <= n THEN RecordOf(s, kinds[s]) ELSE NoRecipe]
  /\ Start
  /\ probe = NoRecipe
  /\ verdict = NoResult
  /\ LibIdle

NextConverge ==
  \/ StartRun
  \/ FilterStep
  \/ EndFilter
  \/ BatchStart
  \/ ItemStep
  \/ BatchEnd
  \/ ReturnStats

\* a run that can take a step takes it: the program is sequential and every
\* call returns or raises
SpecConverge == InitConverge /\ [][NextConverge]_vars /\ WF_vars(NextConverge)

(***************************************************************************)
(* process_all_recipes under every batch_size that Settings accepts: the   *)
(* field is an int without a validator, so zero and negative sizes pass.   *)
(***************************************************************************)
BatchSizes == (0 - MaxBatchSize)..MaxBatchSize

InitBatchSize ==
  /\ settings \in [batch_size : BatchSizes, dry_run : {FALSE},
                   dry_run_limit : {DefaultDryRunLimit}]
  /\ runsLeft = 1
  /\ StoreStart
  /\ Start
  /\ probe = NoRecipe
  /\ verdict = NoResult
  /\ LibIdle

SpecBatchSize == InitBatchSize /\ [][NextConverge]_vars

(***************************************************************************)
(* Properties.                                                             *)
(***************************************************************************)
Sum3(st) == st.processed + st.skipped + st.failed

SlugsIn(recipes) == {recipe_slug_of(recipes[n]) : n \in DOMAIN recipes}

Min(a, b) == IF a < b THEN a ELSE b

\* the least k with k * b >= e
Ceil(e, b) == CHOOSE k \in 0..e : k * b >= e /\ (k = 0 \/ (k - 1) * b < e)

RECURSIVE Concat(_)
Concat(ss) == IF ss = <<>> THEN <<>> ELSE Head(ss) \o Concat(Tail(ss))

\* the calls of the processing stage whose failure fails an item
ItemCalls == {"fetch", "translate", "update"}

C2_PartialFailureIsolation ==
  \A k \in Slugs :
    (failures = {<<k, "update">>} /\ envMoves = 0) =>
      /\ pc # "raised"
      /\ pc = "returned" =>
           /\ result.failed >= 1
           /\ result.processed = Len(unprocessed_recipes) - 1
           /\ \A s \in SlugsIn(unprocessed_recipes) \ {k} :
                calls.translate[s] = 1 /\ calls.update[s] = 1

\* C2: a run of three eligible recipes returns after the update of the first
\* one raised
C2_Witness ==
  /\ pc = "returned"
  /\ envMoves = 0
  /\ Len(unprocessed_recipes) = 3
  /\ failures = {<<recipe_slug_of(unprocessed_recipes[1]), "update">>}
  /\ result.processed = 2

\* the first run returned with every recipe it found eligible updated and
\* marked (no item failed, no mark failed), and nobody else wrote to the store
FirstRunClean ==
  /\ Len(past) >= 1
  /\ past[1].how = "returned"
  /\ past[1].result.failed = 0
  /\ "mark" \notin past[1].failed
  /\ envMoves = 0

\* C3: after a first run in which the update and the mark-processed write of
\* every eligible recipe succeeded, and with no other writer, a later run calls
\* the translator for no recipe and returns processed = 0; over all the runs
\* each recipe is translated at most once.
C3_Idempotence ==
  FirstRunClean =>
    /\ \A s \in Slugs : calls.translate[s] = 0 /\ translations[s] <= 1
    /\ pc = "returned" => result.processed = 0

\* C3: the second run returns after a clean first run that processed at least
\* two recipes
C3_Witness ==
  /\ FirstRunClean
  /\ Len(past) = 1
  /\ past[1].result.processed >= 2
  /\ pc = "returned"

\* C4: when Settings.dry_run is true, neither process_single_recipe nor the
\* per-item step of process_all_recipes calls update_recipe or
\* mark_recipe_as_processed, and process_single_recipe returns True when the
\* translation succeeds.
C4_DryRunNonMutation ==
  settings.dry_run =>
    /\ \A s \in Slugs : calls.update[s] = 0 /\ calls.mark[s] = 0
    /\ (single # NoResult /\ calls.translate[single.slug] = 1
        /\ <<single.slug, "translate">> \notin failures) => single.value

\* C5: with dry_run enabled and dry_run_limit = L, a run over E eligible
\* recipes processes only the first min(E, L) of them and returns
\* total_recipes = min(E, L).
C5_DryRunTruncation ==
  (settings.dry_run /\ pc = "returned" /\ unprocessed_recipes # <<>>) =>
    LET limit == Min(Len(unprocessed_recipes), settings.dry_run_limit)
    IN  /\ result.total_recipes = limit
        /\ Sum3(result) = limit
        /\ \A n \in DOMAIN unprocessed_recipes :
             n > limit =>
               calls.fetch[recipe_slug_of(unprocessed_recipes[n])] = 0

\* C6: for batch_size B >= 1 and E >= 1 eligible recipes the batch step is
\* invoked ceil(E/B) times, every batch but the last has B recipes, the last
\* has E - B * (ceil(E/B) - 1), and the batches in order make up the eligible
\* list; while the run is under way they make up a prefix of it.
C6_BatchPartition ==
  LET E == Len(unprocessed_recipes)
      B == settings.batch_size
      K == Ceil(E, B)
      done == Concat(batches)
  IN  /\ (pc = "returned" /\ E >= 1) =>
           /\ Len(batches) = K
           /\ \A n \in 1..(K - 1) : Len(batches[n]) = B
           /\ Len(batches[K]) = E - B * (K - 1)
           /\ done = unprocessed_recipes
      /\ (pc \in {"batches", "items"} /\ ~direct) =>
           /\ Len(done) <= E
           /\ done = SubSeq(unprocessed_recipes, 1, Len(done))
           /\ \A n \in 1..Len(batches) : Len(batches[n]) >= 1

\* C6: three eligible recipes with batch_size 2 went through as a batch of two
\* and a batch of one
C6_Witness ==
  /\ pc = "returned"
  /\ settings.batch_size = 2
  /\ Len(unprocessed_recipes) = 3
  /\ Len(batches) = 2
  /\ Len(batches[2]) = 1

\* C7: every pass of the loop of the batch step increments exactly one of
\* processed, skipped, failed, whatever the outcome of its calls; so the
\* counters of the batch step add up to the number of items it has handled,
\* and a run that went through its batches returns processed + failed +
\* skipped = total_recipes = the number of eligible recipes.
C7_BatchAccounting ==
  /\ [][(pc = "items" /\ bi' # bi) =>
          \E key \in {"processed", "skipped", "failed"} :
            batch_stats' = Bump(batch_stats, key)]_vars
  /\ [](pc = "items" => Sum3(batch_stats) = bi - 1)
  /\ []((pc = "returned" /\ unprocessed_recipes # <<>>) =>
          /\ Sum3(result) = result.total_recipes
          /\ result.total_recipes = Len(unprocessed_recipes))

\* C7: a run returns with one recipe processed, one skipped at the batch
\* stage and one failed
C7_Witness ==
  /\ pc = "returned"
  /\ unprocessed_recipes # <<>>
  /\ result.processed >= 1
  /\ result.skipped >= 1
  /\ result.failed >= 1

\* C8: is_recipe_processed(recipe) is true iff the recipe has
\* extras.translated and its value is a capitalisation of "true" or "1"; it
\* is false without extras, without the key, and for any other word.
C8_MarkerPredicate ==
  verdict # NoResult =>
    verdict.value = (/\ probe.shape \in {"translated", "both"}
                     /\ probe.word \in {StrTrue, StrOne})

\* C8: the predicate answered True for a capitalised marker
C8_Witness ==
  /\ verdict # NoResult
  /\ verdict.value
  /\ probe.recipe.extras.translated \notin {StrTrue, StrOne}

\* C9: when update_recipe succeeded and mark_recipe_as_processed failed, the
\* pass of the batch step counts the item as processed (failed unchanged) and
\* goes on with the loop, and process_single_recipe returns True: no failure
\* inside mark_recipe_as_processed reaches the orchestrator as an exception.
C9_MarkFailureTolerated ==
  /\ [][\A s \in Slugs :
          (pc = "items" /\ <<s, "mark">> \in failures' \ failures) =>
            /\ pc' = "items"
            /\ bi' = bi + 1
            /\ batch_stats' = Bump(batch_stats, "processed")]_vars
  /\ []((single # NoResult /\ <<single.slug, "mark">> \in failures) =>
          single.value)

\* C9: a run returns with a recipe whose mark failed counted as processed and
\* nothing failed
C9_Witness ==
  /\ pc = "returned"
  /\ \E s \in Slugs : <<s, "mark">> \in failures
  /\ result.processed >= 1
  /\ result.failed = 0

\* what C10 says of a candidate s whose detail fetch failed in the filter
FilterFailureTolerated(s) ==
  /\ s \notin SlugsIn(unprocessed_recipes)
  /\ calls.ffetch[s] = 1
  /\ \A k \in CallKinds \ {"ffetch"} : calls[k][s] = 0
  /\ pc = "filter" => \E n \in 1..(fi - 1) : recipe_slug_of(all_recipes[n]) = s
  /\ pc = "returned" =>
       result.failed =
         Cardinality({t \in Slugs : \E c \in ItemCalls : <<t, c>> \in failures})

\* C10, as stated: a candidate whose detail fetch fails during filtering, by
\* not found or by a store/network error, is ineligible for the run, not
\* fetched again by the filter, not counted in failed, the filter goes on
\* with the next candidate and the run is not aborted.
C10_FilterFetchFailure ==
  \A s \in Slugs :
    (<<s, "ffetch404">> \in failures \/ <<s, "ffetch">> \in failures) =>
      FilterFailureTolerated(s) /\ pc # "raised"

\* C10, amended: a candidate whose detail fetch returns not found during
\* filtering is ineligible for the run, not fetched again, not counted in
\* failed, and the filter goes on with the next candidate; a store/network
\* error raised by that fetch is not caught: it aborts the run, which then
\* returns no statistics.  Nothing else aborts a run once the listing is read.
C10_FilterNotFound ==
  /\ \A s \in Slugs : <<s, "ffetch404">> \in failures => FilterFailureTolerated(s)
  /\ \A s \in Slugs :
       <<s, "ffetch">> \in failures => pc = "raised" /\ result = NoResult
  /\ (pc = "raised" /\ all_recipes # <<>>) =>
       \E s \in Slugs : <<s, "ffetch">> \in failures

\* C10: a run returns, having processed a recipe, after the detail fetch of
\* another candidate returned not found in the filter
C10_Witness ==
  /\ pc = "returned"
  /\ \E s \in Slugs : <<s, "ffetch404">> \in failures
  /\ result.processed >= 1

\* the calls of kind k for slug s made by the step
Made(k, s) == calls'[k][s] - calls[k][s]

\* the step made one detail fetch for s in the processing stage and no
\* other call for it
OnlyFetched(s) ==
  /\ Made("fetch", s) = 1
  /\ \A k \in CallKinds \ {"fetch"} : Made(k, s) = 0
  /\ translations' = translations
  /\ store' = store

\* C11: when the detail fetch of the per-item step returns no recipe for a
\* slug (the store does not hold it and the fetch did not raise), the batch
\* step increments failed by exactly one and goes on, and
\* process_single_recipe returns False; in both paths the fetch is made once
\* and translate_recipe, update_recipe and mark_recipe_as_processed are not
\* called for that slug.
C11_NotFound ==
  /\ [][\A s \in Slugs :
          (/\ pc = "items"
           /\ bi' = bi + 1
           /\ recipe_slug_of(batch[bi]) = s
           /\ store[s] = NoRecipe
           /\ nfaults' = nfaults) =>
            /\ batch_stats' = Bump(batch_stats, "failed")
            /\ pc' = "items"
            /\ OnlyFetched(s)]_vars
  /\ [][\A s \in Slugs :
          (/\ pc = "idle"
           /\ pc' = "single_returned"
           /\ single'.slug = s
           /\ store[s] = NoRecipe
           /\ nfaults' = nfaults) =>
            /\ single'.value = FALSE
            /\ OnlyFetched(s)]_vars

\* C11: a run returns one failed item, no call having raised: the recipe was
\* eligible in the filter and not found by the batch step
C11_Witness ==
  /\ pc = "returned"
  /\ nfaults = 0
  /\ result.failed = 1
  /\ \E s \in Slugs :
       /\ <<s, "fetch">> \in failures
       /\ calls.fetch[s] = 1
       /\ calls.translate[s] = 0

\* C12: when the record fetched by the per-item step carries the processed
\* marker, the batch step counts the item as skipped (processed and failed
\* unchanged) and goes on, and process_single_recipe returns True; in both
\* paths translate_recipe, update_recipe and mark_recipe_as_processed are not
\* called for that recipe.
C12_AlreadyProcessed ==
  /\ [][\A s \in Slugs :
          (/\ pc = "items"
           /\ bi' = bi + 1
           /\ recipe_slug_of(batch[bi]) = s
           /\ store[s] # NoRecipe
           /\ is_recipe_processed(store[s])
           /\ nfaults' = nfaults) =>
            /\ batch_stats' = Bump(batch_stats, "skipped")
            /\ pc' = "items"
            /\ OnlyFetched(s)]_vars
  /\ [][\A s \in Slugs :
          (/\ pc = "idle"
           /\ pc' = "single_returned"
           /\ single'.slug = s
           /\ store[s] # NoRecipe
           /\ is_recipe_processed(store[s])
           /\ nfaults' = nfaults) =>
            /\ single'.value = TRUE
            /\ OnlyFetched(s)]_vars

\* C12: a run returns one skipped item: the recipe was eligible in the filter
\* and carried the marker when the batch step fetched it
C12_Witness ==
  /\ pc = "returned"
  /\ result.skipped = 1
  /\ result.failed = 0
  /\ \E s \in SlugsIn(unprocessed_recipes) :
       /\ Truthy(s)
       /\ is_recipe_processed(store[s])
       /\ calls.fetch[s] = 1
       /\ calls.translate[s] = 0
       /\ calls.update[s] = 0
       /\ calls.mark[s] = 0

\* C13: _call_openai with max_retries = m >= 1 and retry_delay = d calls the
\* provider until the first success or until m attempts have failed; after
\* failed attempt i (0-based, i < m - 1) it sleeps d * 2^i before attempt
\* i + 1; no sleep follows the m-th failure (m - 1 sleeps in all); a success
\* returns at once with no further call; after m failures it raises
\* TranslationError with provider "openai" and the last exception as cause.
C13_RetryProtocol ==
  (retry # NoCall /\ retry.max_retries >= 1) =>
    LET m == retry.max_retries
        d == retry.retry_delay
        f == Len(retry.errors)
    IN  /\ \A i \in 1..Len(retry.sleeps) : retry.sleeps[i] = d * Pow2(i - 1)
        /\ retry.at = "loop" =>
             /\ f < m
             /\ retry.created = f
             /\ Len(retry.sleeps) = f
        /\ (retry.at = "done" /\ ~retry.outcome.raised) =>
             /\ f < m
             /\ retry.created = f + 1
             /\ Len(retry.sleeps) = f
        /\ (retry.at = "done" /\ retry.outcome.raised) =>
             /\ f = m
             /\ retry.created = m
             /\ Len(retry.sleeps) = m - 1
             /\ retry.outcome.provider = "openai"
             /\ retry.outcome.cause = retry.errors[m]

\* C13: four attempts failed with delay 1: the call slept 1, 2, 4 and raised
C13_Witness ==
  /\ retry # NoCall
  /\ retry.at = "done"
  /\ retry.outcome.raised
  /\ retry.max_retries = 4
  /\ retry.sleeps = <<1, 2, 4>>

Digits == {"0", "1", "2", "3", "4", "5", "6", "7", "8", "9"}

\* the number of digits line starts with
RECURSIVE LeadingDigits(_)
LeadingDigits(line) ==
  IF line # <<>> /\ Head(line) \in Digits THEN 1 + LeadingDigits(Tail(line)) ELSE 0

\* line without its leading "<n>. " prefix, if it has one
WithoutNumberPrefix(line) ==
  LET d == LeadingDigits(line)
  IN  IF d >= 1 /\ SubSeq(line, d + 1, d + 2) = DotSpace
      THEN SubSeq(line, d + 3, Len(line))
      ELSE line

\* C14: for n >= 1 ingredient texts and any provider response of k lines,
\* _translate_ingredient_batch returns n texts in input order: output[i] is
\* line i without its leading "<n>. " prefix for i < min(k, n), and input[i]
\* for k <= i < n; surplus lines are discarded and no error is raised.
C14_NumberedLines ==
  (/\ ingredient_batch # NoCall
   /\ ingredient_batch.at = "returned"
   /\ ingredient_batch.texts # <<>>) =>
    LET texts == ingredient_batch.texts
        lines == Split(ingredient_batch.response, NewLine)
        output == ingredient_batch.output
        n == Len(texts)
        k == Len(lines)
    IN  /\ Len(output) = n
        /\ \A i \in 1..n :
             output[i] = IF i <= k THEN WithoutNumberPrefix(lines[i])
                         ELSE texts[i]

\* C15: create_translator either returns a translator whose is_available()
\* check answered true, or raises TranslationError; for a missing OpenAI key,
\* a missing Ollama URL or model, or a provider whose is_available() is
\* false, the error's provider field names that provider; an unsupported
\* provider name raises TranslationError and no translator is constructed.
C15_FactoryFailsFast ==
  (factory # NoCall /\ factory.at = "done") =>
    LET s == factory.settings
        o == factory.outcome
        name == StrLower(s.translator_provider)
        misconfigured ==
          \/ name = StrOpenAI /\ s.openai_api_key = <<>>
          \/ name = StrOllama /\ (s.ollama_base_url = <<>> \/ s.ollama_model = <<>>)
        supported == name \in {StrOpenAI, StrOllama}
        offending == IF name = StrOpenAI THEN "openai" ELSE "ollama"
    IN  /\ IF o.raised
           THEN o.error.type = "TranslationError"
           ELSE /\ o.translator.available
                /\ o.translator.provider \in o.checked
                /\ o.translator.provider = offending
        /\ (supported /\ (misconfigured \/ ~factory.env.available)) =>
             o.raised /\ o.error.provider = offending
        /\ misconfigured => o.constructed = {}
        /\ ~supported => o.raised /\ o.constructed = {}

\* C15: the Ollama translator was constructed from a complete configuration,
\* answered is_available() with false, and the factory raised an error naming
\* ollama
C15_Witness ==
  /\ factory # NoCall
  /\ factory.at = "done"
  /\ factory.outcome.raised
  /\ factory.outcome.constructed = {"ollama"}
  /\ factory.outcome.checked = {"ollama"}
  /\ factory.outcome.error.provider = "ollama"

\* the selected provider lacks a required credential or URL, or is
\* unreachable when the program starts
ProviderUnusable ==
  LET s == startup.settings
  IN  \/ s.translator_provider = StrOpenAI /\ s.openai_api_key = <<>>
      \/ s.translator_provider = StrOllama /\ s.ollama_base_url = <<>>
      \/ ~startup.reachable

\* C16: if the selected provider lacks a required credential/URL or is
\* unreachable at startup, constructing RecipeProcessor fails, so that no
\* store call (list, get, update, mark) is issued for that run.
C16_ConfigErrorBeforeStore ==
  (startup # NoCall /\ ProviderUnusable) =>
    /\ startup.at # "constructed"
    /\ pc = "idle"
    /\ calls = NoCalls

\* C17: get_all_recipes requests pages 1, 2, ... with perPage = 50 and stops
\* at the first page that is empty or has fewer than 50 items; for a store of
\* N recipes served in full pages it returns after floor(N/50) + 1 requests
\* with all N recipes once each, in page order; a request error is raised to
\* the caller and no list, partial or not, is returned.
C17_Pagination ==
  listing # NoCall =>
    LET N == listing.stored
        asked == listing.requests
        full == listing.cap >= per_page
    IN  /\ \A n \in 1..Len(asked) : asked[n] = [page |-> n, perPage |-> 50]
        /\ (listing.at = "loop" /\ full) =>
             /\ Len(asked) = listing.page - 1
             /\ Len(listing.recipes) = 50 * Len(asked)
             /\ Len(listing.recipes) <= N
        /\ (listing.at = "returned" /\ full) =>
             /\ Len(asked) = (N \div 50) + 1
             /\ listing.returned = Range(1, N)
        /\ listing.at = "raised" => listing.returned = NoResult
        /\ listing.at # "returned" => listing.returned = NoResult

\* C17: a store of 100 recipes was listed in three requests, the last page
\* being empty
C17_Witness ==
  /\ listing # NoCall
  /\ listing.at = "returned"
  /\ listing.cap = per_page
  /\ listing.stored = 100
  /\ Len(listing.requests) = 3
  /\ Len(listing.returned) = 100

\* C18: main() returns 1 when the store URL, the store token or the API key
\* is missing, when process_single_recipe returns False, and when loading the
\* settings, constructing the processor or processing raises; otherwise it
\* returns 0, and it returns nothing else.
C18_ExitStatus ==
  (cli # NoCall /\ cli.at = "exited") =>
    LET s == cli.settings
        configError ==
          \/ s.mealie_base_url = <<>>
          \/ s.mealie_api_token = <<>>
          \/ s.openai_api_key = <<>>
          \/ cli.env.load_raises
          \/ cli.env.construct_raises
        processingError ==
          \/ single # NoResult /\ ~single.value
          \/ pc = "raised"
    IN  /\ cli.code \in {0, 1}
        /\ cli.code = 1 <=> (configError \/ processingError)
        /\ configError => pc = "idle" /\ ~cli.constructed

\* C18: main exited with 1 after process_single_recipe returned False
C18_Witness ==
  /\ cli # NoCall
  /\ cli.at = "exited"
  /\ cli.code = 1
  /\ single # NoResult
  /\ ~single.value

\* C19: when the listing is not empty and the filter keeps no recipe,
\* process_all_recipes returns skipped = total_recipes = the size of the
\* listing, processed = 0 and failed = 0, and has called neither the
\* translator nor update_recipe nor mark_recipe_as_processed; when the
\* listing is empty it returns all four counters as 0 without a detail fetch.
C19_NoEligibleRecipes ==
  (pc = "returned" /\ unprocessed_recipes = <<>>) =>
    /\ result.processed = 0
    /\ result.failed = 0
    /\ result.skipped = Len(all_recipes)
    /\ result.total_recipes = Len(all_recipes)
    /\ \A s \in Slugs :
         /\ \A k \in {"fetch", "translate", "update", "mark"} : calls[k][s] = 0
         /\ all_recipes = <<>> => calls.ffetch[s] = 0

\* C19: a run over a listing of three recipes returns with all three skipped
\* by the filter
C19_Witness ==
  /\ pc = "returned"
  /\ unprocessed_recipes = <<>>
  /\ Len(all_recipes) = 3
  /\ result.skipped = 3
  /\ \E s \in Slugs : calls.ffetch[s] = 1

\* the calls of the processing stage
ProcessingCalls == {"fetch", "translate", "update", "mark"}

\* the position in unprocessed_recipes of the item the batch step is at
Cursor == batch_num * settings.batch_size + bi

\* the eligible recipes the batch loop has been through
Handled == batch_num * settings.batch_size + (IF pc = "items" THEN bi - 1 ELSE 0)

\* the listing entries whose record in st is there and not marked
Unprocessed(entries, st) ==
  SelectSeq(entries,
            LAMBDA e : /\ Truthy(recipe_slug_of(e))
                       /\ st[recipe_slug_of(e)] # NoRecipe
                       /\ ~is_recipe_processed(st[recipe_slug_of(e)]))

\* sub is a subsequence of seq, the entries of seq being distinct
IsSubsequence(sub, seq) ==
  /\ \A n \in DOMAIN sub : \E m \in DOMAIN seq : seq[m] = sub[n]
  /\ \A n1, n2 \in DOMAIN sub : \A m1, m2 \in DOMAIN seq :
       (n1 < n2 /\ seq[m1] = sub[n1] /\ seq[m2] = sub[n2]) => m1 < m2

\* C20: the eligible list is the subsequence of the listing made of the
\* unprocessed recipes, in listing order; the batch loop goes through it
\* strictly in order, so a step of the processing stage makes its calls
\* (fetch, translate, update, mark) for the recipe at the cursor only, no
\* call has yet been made for a recipe further down the list, and the cursor
\* never moves back; every fetch of the eligibility filter is made before
\* the first call of the processing stage, the first translation included.
C20_Ordering ==
  /\ []((pc \in {"filter", "batches", "items", "returned"} /\ ~direct) =>
          IsSubsequence(unprocessed_recipes, all_recipes))
  /\ []((pc = "batches" /\ batch_num = 0 /\ envMoves = 0) =>
          unprocessed_recipes = Unprocessed(all_recipes, store))
  /\ []((pc = "items" /\ ~direct /\ bi <= Len(batch)) =>
          /\ Cursor \in DOMAIN unprocessed_recipes
          /\ batch[bi] = unprocessed_recipes[Cursor]
          /\ \A j \in DOMAIN unprocessed_recipes :
               j >= Cursor =>
                 \A k \in ProcessingCalls :
                   calls[k][recipe_slug_of(unprocessed_recipes[j])] = 0)
  /\ [][(pc = "items" /\ ~direct /\ bi' = bi + 1) =>
          \A s \in Slugs : \A k \in ProcessingCalls :
            Made(k, s) > 0 => s = recipe_slug_of(unprocessed_recipes[Cursor])]_vars
  /\ [][(pc # "idle" /\ ~direct /\ \E s \in Slugs : \E k \in ProcessingCalls :
                                      Made(k, s) > 0) =>
          pc = "items" /\ bi' = bi + 1]_vars
  /\ [][(pc \in {"batches", "items"} /\ ~direct /\ pc' # "idle") =>
          Handled' >= Handled]_vars
  /\ [][(\E s \in Slugs : Made("ffetch", s) > 0) =>
          /\ pc = "filter"
          /\ \A s \in Slugs : \A k \in ProcessingCalls : calls[k][s] = 0]_vars
  /\ []((pc \in {"batches", "items"} /\ ~direct /\ \E s \in Slugs :
                                        \E k \in ProcessingCalls : calls[k][s] > 0) =>
          fi > Len(all_recipes))

\* C20: a run over three eligible recipes in batches of two returns, each of
\* the three translated, updated and marked
C20_Witness ==
  /\ pc = "returned"
  /\ Len(unprocessed_recipes) = 3
  /\ settings.batch_size = 2
  /\ Len(batches) = 2
  /\ \A s \in Slugs : calls.translate[s] = 1 /\ calls.update[s] = 1 /\ calls.mark[s] = 1

\* how many times v occurs in seq
Count(seq, v) == Cardinality({n \in DOMAIN seq : seq[n] = v})

\* C21: a run of process_all_recipes that went through the batch loop over E
\* eligible recipes with batch size B slept 2 seconds exactly ceil(E/B) - 1
\* times; every such pause is made when a batch step has returned after its
\* last item and a further batch is still to come, every such return makes
\* one, and so the first item of every batch but the first is preceded by it.
C21_InterBatchPause ==
  /\ []((pc = "returned" /\ unprocessed_recipes # <<>>) =>
          Count(sleeps, 2) =
            Ceil(Len(unprocessed_recipes), settings.batch_size) - 1)
  /\ [][Count(sleeps', 2) > Count(sleeps, 2) =>
          /\ pc = "items" /\ bi > Len(batch)
          /\ pc' = "batches" /\ batch_num' = batch_num + 1
          /\ batch_num' < total_batches
          /\ sleeps' = Append(sleeps, 2)]_vars
  /\ [][(pc = "items" /\ pc' = "batches" /\ batch_num' < total_batches) =>
          sleeps' = Append(sleeps, 2)]_vars
  /\ []((pc = "items" /\ ~direct /\ bi = 1 /\ batch_num > 0) =>
          (sleeps # <<>> /\ sleeps[Len(sleeps)] = 2))

\* three eligible recipes in batches of two, all processed: one pause
C21_Witness ==
  /\ pc = "returned"
  /\ Len(unprocessed_recipes) = 3
  /\ settings.batch_size = 2
  /\ result.processed = 3
  /\ Len(batches) = 2
  /\ Count(sleeps, 2) = 1

\* C22: when the batch step has returned, the number of 1-second sleeps it
\* made equals processed + failed, for a run of process_all_recipes and for
\* a call of the batch step on its own; a call with an empty batch made none.
C22_PerItemPacing ==
  /\ (pc = "returned" /\ unprocessed_recipes # <<>>) =>
       Count(sleeps, 1) = result.processed + result.failed
  /\ pc = "batch_returned" =>
       /\ Count(sleeps, 1) = batch_stats.processed + batch_stats.failed
       /\ batch = <<>> => sleeps = <<>>

\* the recipe of slug s carries the processed marker in the shared store
Marked(c, s) == c.store[s] # NoRecipe /\ is_recipe_processed(c.store[s])

\* C25: with two runs of process_all_recipes interleaved on one store, a
\* recipe whose processed marker is set in the store keeps it through every
\* later call of either run.
C25_MarkerStability ==
  [][\A s \in Slugs : Marked(concurrent, s) => Marked(concurrent', s)]_vars

\* the calls run r made for the recipe of slug s, in the order it made them
CallsFor(r, s) == SelectSeq(concurrent.run[r].log, LAMBDA e : e.slug = s)

\* the protocol of one recipe in one run
Protocol == <<"filter_fetch", "fetch", "translate", "update", "mark">>

\* the calls of every run follow the protocol, one by one and each once;
\* translate_recipe gets the record the processing fetch returned and the
\* translator translates into the configured target language, update_recipe
\* gets the translator's result and follows a translate that returned, mark
\* follows an update that returned True, and the recipes counted as
\* processed are those with all five calls
CallOrder ==
  \A r \in Runs :
    /\ \A s \in Slugs :
         LET made == CallsFor(r, s)
         IN  /\ Len(made) <= Len(Protocol)
             /\ \A n \in DOMAIN made :
                  /\ made[n].op = Protocol[n]
                  /\ made[n].op = "translate" =>
                       /\ made[n].arg[1] = made[n - 1].out
                       /\ made[n].target_language =
                            concurrent.settings.target_language
                  /\ made[n].op = "update" =>
                       /\ made[n - 1].out # Raised
                       /\ made[n].arg = made[n - 1].out
                  /\ made[n].op = "mark" => made[n - 1].out = Returned(TRUE)
    /\ concurrent.run[r].stats.processed =
         Cardinality({s \in Slugs : Len(CallsFor(r, s)) = Len(Protocol)})

\* C23: in every run the calls made for a recipe follow, each once, the
\* order filter fetch, processing fetch, translate, update, mark, with the
\* arguments and the conditions above, and translate_recipe is called with
\* the freshly fetched full recipe and the configured target language.
C23_CallProtocol ==
  /\ CallOrder
  /\ \A r \in Runs : \A s \in Slugs :
       \A n \in DOMAIN CallsFor(r, s) :
         CallsFor(r, s)[n].op = "translate" =>
           CallsFor(r, s)[n].arg =
             <<CallsFor(r, s)[n - 1].out, concurrent.settings.target_language>>

\* the record with extras.translated = "true" and nothing else changed
MarkedCopy(before, after) ==
  /\ after # NoRecipe
  /\ DOMAIN after = DOMAIN before \cup {"extras"}
  /\ \A k \in DOMAIN before \ {"extras"} : after[k] = before[k]
  /\ LET old == Get(before, "extras", EmptyDict)
     IN  /\ DOMAIN after.extras = DOMAIN old \cup {"translated"}
         /\ after.extras.translated = StrTrue
         /\ \A k \in DOMAIN old \ {"translated"} : after.extras[k] = old[k]

\* the PUT requests issued by the calls made so far
Puts == Concat([n \in DOMAIN marking.done |-> marking.done[n].put])

\* C24: a call of mark_recipe_as_processed never raises; when its GET
\* answers, it returns False without a PUT if the record is not found and
\* True without a PUT if the record is already processed, and otherwise
\* issues exactly one PUT, which, when it succeeds, stores the fetched record
\* with extras.translated = "true" and every other field and every other
\* extras key unchanged, and returns True; no call changes any other
\* record; two successive calls on a working store issue at most one PUT,
\* and none in the second call.
C24_MarkReadModifyWrite ==
  /\ \A n \in DOMAIN marking.done :
       LET c == marking.done[n]
           s == marking.recipe_slug
       IN  /\ ~c.raised
           /\ \A o \in Slugs \ {s} : c.left[o] = c.found[o]
           /\ (c.get = "ok" /\ c.found[s] = NoRecipe) =>
                (~c.value /\ c.put = <<>> /\ c.left = c.found)
           /\ (c.get = "ok" /\ c.found[s] # NoRecipe
                 /\ is_recipe_processed(c.found[s])) =>
                (c.value /\ c.put = <<>> /\ c.left = c.found)
           /\ (c.get = "ok" /\ c.found[s] # NoRecipe
                 /\ ~is_recipe_processed(c.found[s])) =>
                /\ Len(c.put) = 1
                /\ c.put = <<"ok">> =>
                     (c.value /\ MarkedCopy(c.found[s], c.left[s]))
                /\ c.put = <<"error">> => (~c.value /\ c.left = c.found)
           /\ c.get = "error" => (~c.value /\ c.put = <<>> /\ c.left = c.found)
  /\ (Len(marking.done) = 2
        /\ \A n \in 1..2 : marking.done[n].get = "ok"
                           /\ marking.done[n].put \in {<<>>, <<"ok">>}) =>
       /\ Len(Puts) <= 1
       /\ marking.done[2].put = <<>>
       /\ marking.done[2].left = marking.done[1].left
       /\ Len(Puts) = 1 <=>
            (marking.done[1].found[marking.recipe_slug] # NoRecipe
               /\ ~is_recipe_processed(
                     marking.done[1].found[marking.recipe_slug]))

\* two calls on a working store for a record whose extras hold another key
\* and translated = "false": one PUT in total
C24_Witness ==
  /\ Len(marking.done) = 2
  /\ marking.done[1].found[marking.recipe_slug] =
       MarkRecord(marking.recipe_slug, "false")
  /\ Puts = <<"ok">>
  /\ marking.done[2].value

\* the stored recipe of slug s carries the processed marker
StoreMarked(st, s) == st[s] # NoRecipe /\ is_recipe_processed(st[s])

\* C26: with no other writer, whenever a call of the orchestrator
\* (a pass of the batch step or process_single_recipe) leaves a recipe
\* marked that was not marked before, that call made one update_recipe for
\* the recipe, the update succeeded, and the stored record is the
\* translation of the record as it was, plus the marker; no other step
\* writes a marker.
C26_MarkerImpliesTranslation ==
  [][envMoves' = envMoves =>
       \A s \in Slugs :
         (~StoreMarked(store, s) /\ StoreMarked(store', s)) =>
           /\ Made("translate", s) = 1
           /\ Made("update", s) = 1
           /\ Made("mark", s) = 1
           /\ <<s, "update">> \notin failures'
           /\ <<s, "translate">> \notin failures'
           /\ store[s] # NoRecipe
           /\ store'[s] = SetProcessedFlag(translate_recipe(store[s]))]_vars

\* a run of process_all_recipes and no other writer: a recipe was
\* translated, updated and marked
C26_Witness ==
  /\ pc = "returned"
  /\ envMoves = 0
  /\ result # NoResult
  /\ result.processed >= 1
  /\ \E s \in Slugs :
       /\ calls["mark"][s] = 1
       /\ <<s, "mark">> \notin failures
       /\ store[s] = SetProcessedFlag(translate_recipe(Fresh(s)))

\* C27: for every max_retries, an invocation of _call_openai that has ended
\* returned a string only if one of its provider calls succeeded; if none
\* succeeded it ended by raising.
C27_NoSilentEmptyTranslation ==
  retry.at = "done" =>
    IF retry.created > Len(retry.errors)
    THEN ~retry.outcome.raised
    ELSE retry.outcome.raised

\* C28: is_recipe_processed returns a boolean without raising for every
\* record the store can return, a null extras and a translated value that is
\* not a string included, and the filter of process_all_recipes goes on.
C28_PredicateTotal ==
  verdict # NoResult =>
    /\ ~verdict.call.raised
    /\ verdict.call.value \in BOOLEAN
    /\ verdict.filter # "raised"

\* every recipe the store holds carries the processed marker
Converged == \A s \in Slugs : store[s] # NoRecipe => StoreMarked(store, s)

\* C29: under sequential runs in which calls fail only finitely often, every
\* recipe in the store eventually carries the processed marker and keeps it;
\* from then on no translate and no update is issued, and a run that issued
\* no update returns processed = 0; a recipe whose mark failed after its
\* update is still unmarked when that run returns, and a recipe only becomes
\* marked in a step that translates it once more.
C29_Convergence ==
  /\ <>[]Converged
  /\ [][Converged =>
          /\ Converged'
          /\ \A s \in Slugs : calls'["update"][s] <= calls["update"][s]
          /\ translations' = translations]_vars
  /\ []((pc = "returned" /\ \A s \in Slugs : calls["update"][s] = 0) =>
          result.processed = 0)
  /\ [](\A s \in Slugs :
          (pc = "returned" /\ <<s, "mark">> \in failures) =>
            (~StoreMarked(store, s) /\ translations[s] >= 1))
  /\ [][\A s \in Slugs :
          (~StoreMarked(store, s) /\ StoreMarked(store', s)) =>
            translations'[s] = translations[s] + 1]_vars

\* a recipe was updated but not marked in one run, translated again in the
\* next, and a third run found nothing to do
C29_Witness ==
  /\ Converged
  /\ pc = "returned"
  /\ Len(past) = 2
  /\ "mark" \in past[1].failed
  /\ past[1].how = "returned"
  /\ \E s \in Slugs : translations[s] = 2
  /\ result.processed = 0
  /\ result.total_recipes > 0

\* C30: for every batch_size, a run of process_all_recipes with an eligible
\* recipe raises only if a call of the store or of the translator raised in
\* the listing or the filter, and when it has returned the batches handed to
\* the batch step hold every eligible recipe exactly once, in order.
C30_BatchSizeRobust ==
  /\ (pc = "raised" /\ unprocessed_recipes # <<>>) => nfaults > 0
  /\ (pc = "returned" /\ unprocessed_recipes # <<>>) =>
       Concat(batches) = unprocessed_recipes

====
